---- MODULE Spec2Model ----
(***************************************************************************)
(* u-blox (UBX) protocol framing of the ublox crate: the running checksum  *)
(* (framing/checksum.rs), the byte-at-a-time Deframer state machine        *)
(* (framing/deframer.rs) and the envelope encoder (framing/frame.rs).      *)
(*                                                                         *)
(* A behaviour of Spec is one Deframer, created by Deframer::new(), that   *)
(* is fed a byte stream one push at a time.  The stream is fixed by Init,  *)
(* drawn from bounded families of streams (encoded frames, frames with a   *)
(* corrupted checksum byte, noise, over-length headers, free bytes).       *)
(* A behaviour of SpecCalls is one call of Msg::from_frame, frame() or     *)
(* Frame::into_framed_vec on arguments drawn from bounded sets.            *)
(* A behaviour of SpecChecksum is one Checksum, created by                 *)
(* Checksum::new(), on which push and take are called in any order.        *)
(* A behaviour of SpecPair is two Deframers, each fed its own stream, the  *)
(* pushes on the two interleaved in any order.                             *)
(***************************************************************************)
EXTENDS Integers, Sequences, FiniteSets, TLC

VARIABLES
    stream,     \* the bytes the transport delivers, in arrival order
    pos,        \* how many of them were pushed so far
    d,          \* the Deframer (enum Deframer: a tag and that variant's fields)
    prev,       \* the Deframer as it was before the last push
    outs,       \* the value returned by each push so far, in order
    away,       \* consecutive pushes, up to now, that left d outside Sync
    call,       \* a call of one of the crate's functions: its name and arguments
    result,     \* what that call returned, once it has been made
    checksum,      \* a Checksum: the pair (ck_a, ck_b)
    checksum_was,  \* that Checksum as it was before the last call on it
    checksum_in,   \* the bytes pushed onto it since it was new or last taken
    checksum_ret,  \* the last call on it and the value the call returned
    insts,         \* two Deframers, each with the stream it is fed
    console,       \* what the transport loop has printed, in order
    scratch,       \* the I2C loop's read_buf, the part of scratch last read into
    framing        \* the Deframer of framing.rs, fed the same bytes as d

kvars == <<checksum, checksum_was, checksum_in, checksum_ret>>
vars  == <<stream, pos, d, prev, outs, away, call, result, kvars, insts, console, scratch, framing>>

----------------------------------------------------------------------------
(* Bounds of the model                                                     *)

\* longest payload of the enumerated frames
MaxPayload == 2
\* longest run of noise bytes put before a frame
MaxNoise == 2
\* longest stream of freely chosen bytes
MaxFree == 4
\* most messages sent back to back in one stream
MaxBackToBack == 3
\* bytes an output buffer may have beyond what frame() needs
MaxSlack == 2
\* most bytes pushed onto a Checksum between two takes
MaxPushes == 4
\* length of the long runs of bytes that hold no sync word
MaxRun == 17
\* I2C reads of every length up to this one
MaxCut == 3

----------------------------------------------------------------------------
(* Program constants                                                       *)

\* the two bytes of SYNCWORD 0xB5_62
SYNC1 == 181
SYNC2 == 98
\* const SYNCWORD: u16 = 0xB5_62
SYNCWORD == 46434
\* `if len > 999`: the ceiling on a declared message length
MAX_LEN == 999
\* const FRAME_OVERHEAD: usize = 8
FRAME_OVERHEAD == 8
\* ACK-ACK class and id (messages/ack/mod.rs), as in test_deframe
ACK_CLASS == 5
ACK_ID    == 1
\* `let mut scratch = [0u8; 128]` of the I2C loop
I2C_SCRATCH == 128

Byte == 0 .. 255

----------------------------------------------------------------------------
(* framing/checksum.rs: struct Checksum((u8, u8))                          *)

\* Checksum::default(): both accumulators zero
Checksum_default == <<0, 0>>

\* (the sums stop at 255)
Checksum_push_saturating(self, input) ==
    LET ck_a == IF self[1] + input > 255 THEN 255 ELSE self[1] + input
        ck_b == IF self[2] + ck_a > 255 THEN 255 ELSE self[2] + ck_a
    IN  <<ck_a, ck_b>>

\* Checksum::push: the state after the push (the call returns `input`)
Checksum_push(self, input) ==
    LET ck_a == (self[1] + input) % 256
        ck_b == (self[2] + ck_a) % 256
    IN  <<ck_a, ck_b>>

\* Checksum::push: the value returned
Checksum_push_ret(self, input) == input

\* Checksum::with(input): default, then one push
Checksum_with(input) == Checksum_push(Checksum_default, input)

\* (the pair is returned and the state is left as it is)
Checksum_take_no_reset(self) == [ret |-> self, self |-> self]

\* Checksum::take: the pair returned; the state left behind is the default
Checksum_take(self) == [ret |-> self, self |-> Checksum_default]

\* `for b in message.iter().skip(n) { cksm.push(*b) }`: the pushes of
\* bytes[lo..hi] in order, the range halved to keep the evaluation shallow
RECURSIVE push_range(_, _, _, _)
push_range(cksm, bytes, lo, hi) ==
    IF lo > hi THEN cksm
    ELSE IF lo = hi THEN Checksum_push(cksm, bytes[lo])
    ELSE LET mid  == (lo + hi) \div 2
             left == push_range(cksm, bytes, lo, mid)
         IN  \* the test makes the first half's pushes happen first
             IF left \in Byte \X Byte
             THEN push_range(left, bytes, mid + 1, hi)
             ELSE left

push_all(cksm, bytes, skip) == push_range(cksm, bytes, skip + 1, Len(bytes))

----------------------------------------------------------------------------
(* framing/frame.rs: Frame and Frame::into_framed_vec                      *)

Frame(class, id, message) == [class |-> class, id |-> id, message |-> message]

\* `message.iter().skip(2)`: the checksum starts at the class byte
CKSUM_SKIP == 2

\* (the length is written most significant byte first)
into_framed_vec_be_len(self) ==
    LET len16    == Len(self.message) % 65536
        prefix   == <<SYNC1, SYNC2, self.class, self.id, len16 \div 256, len16 % 256>>
        message  == prefix \o self.message
        ck       == Checksum_take(
                       push_all(Checksum_default, message, CKSUM_SKIP)).ret
    IN  message \o <<ck[1], ck[2]>>

into_framed_vec(self) ==
    LET len16    == Len(self.message) % 65536          \* `as u16`
        len_lsb  == len16 % 256                        \* to_le_bytes()
        len_msb  == len16 \div 256
        prefix   == <<SYNC1, SYNC2, self.class, self.id, len_lsb, len_msb>>
        message  == prefix \o self.message             \* extend, rotate_right
        ck       == Checksum_take(
                       push_all(Checksum_default, message, CKSUM_SKIP)).ret
    IN  message \o <<ck[1], ck[2]>>

----------------------------------------------------------------------------
(* framing/deframer.rs: enum Deframer and Deframer::push                   *)

\* the values a push returns
OkNone        == [kind |-> "None"]
ErrChecksum   == [kind |-> "Checksum"]
OkSome(frame) == [kind |-> "Frame", frame |-> frame]

\* Deframer::new(), also Default::default()
Deframer_new == [state |-> "Sync", accum |-> 0, processed |-> 0]

\* one arm of the match per state; each yields the new Deframer and the
\* value returned
\* (the shift register is cleared whenever the trace message is due)
push_Sync_trace_clears(self, input) ==
    LET accum     == ((self.accum * 256) % 65536) + input
        processed == self.processed + 1
    IN  IF accum = SYNCWORD
        THEN [self |-> [state |-> "Class"], ret |-> OkNone]
        ELSE [self |-> [state |-> "Sync",
                        accum |-> IF processed % 8 = 0 THEN 0 ELSE accum,
                        processed |-> processed],
              ret |-> OkNone]

\* (the shift register keeps three bytes)
push_Sync_wide(self, input) ==
    LET accum     == ((self.accum * 256) % 16777216) + input
        processed == self.processed + 1
    IN  IF accum = SYNCWORD
        THEN [self |-> [state |-> "Class"], ret |-> OkNone]
        ELSE [self |-> [state |-> "Sync", accum |-> accum,
                        processed |-> processed],
              ret |-> OkNone]

\* (only the low byte of the window is compared with the sync word)
push_Sync_low_byte(self, input) ==
    LET accum     == ((self.accum * 256) % 65536) + input
        processed == self.processed + 1
    IN  IF accum % 256 = SYNCWORD % 256
        THEN [self |-> [state |-> "Class"], ret |-> OkNone]
        ELSE [self |-> [state |-> "Sync", accum |-> accum,
                        processed |-> processed],
              ret |-> OkNone]

push_Sync(self, input) ==
    LET accum     == ((self.accum * 256) % 65536) + input   \* u16 << 8 | input
        processed == self.processed + 1
    IN  IF accum = SYNCWORD
        THEN [self |-> [state |-> "Class"], ret |-> OkNone]
        ELSE [self |-> [state |-> "Sync", accum |-> accum,
                        processed |-> processed],
              ret |-> OkNone]

\* (the checksum is carried on from the two bytes of the sync word)
push_Class_from_sync(self, input) ==
    [self |-> [state |-> "Id", class |-> input,
               cksum |-> Checksum_push(Checksum_push(Checksum_with(SYNC1), SYNC2), input)],
     ret  |-> OkNone]

\* push_Class with Checksum::default() in place of Checksum::with(input)
push_Class_unseeded(self, input) ==
    [self |-> [state |-> "Id", class |-> input, cksum |-> Checksum_default],
     ret  |-> OkNone]

push_Class(self, input) ==
    [self |-> [state |-> "Id", class |-> input, cksum |-> Checksum_with(input)],
     ret  |-> OkNone]

push_Id(self, input) ==
    [self |-> [state |-> "LengthLsb", class |-> self.class, id |-> input,
               cksum |-> Checksum_push(self.cksum, input)],
     ret  |-> OkNone]

\* (class and id change places)
push_LengthLsb_swapped(self, input) ==
    [self |-> [state |-> "LengthMsb", class |-> self.id, id |-> self.class,
               len_b0 |-> input,
               cksum |-> Checksum_push(self.cksum, input)],
     ret  |-> OkNone]

push_LengthLsb(self, input) ==
    [self |-> [state |-> "LengthMsb", class |-> self.class, id |-> self.id,
               len_b0 |-> input,
               cksum |-> Checksum_push(self.cksum, input)],
     ret  |-> OkNone]

\* push_LengthMsb with the ceiling test written `len >= 999`
push_LengthMsb_ge(self, input) ==
    LET len == (input * 256) + self.len_b0
    IN  IF len >= MAX_LEN
        THEN [self |-> Deframer_new, ret |-> OkNone]
        ELSE [self |-> [state |-> "Message", class |-> self.class,
                        id |-> self.id, len |-> len, message |-> <<>>,
                        cksum |-> Checksum_push(self.cksum, input)],
              ret  |-> OkNone]

\* (a length above the ceiling is reported as an error)
push_LengthMsb_err(self, input) ==
    LET len == (input * 256) + self.len_b0
    IN  IF len > MAX_LEN
        THEN [self |-> Deframer_new, ret |-> ErrChecksum]
        ELSE [self |-> [state |-> "Message", class |-> self.class,
                        id |-> self.id, len |-> len, message |-> <<>>,
                        cksum |-> Checksum_push(self.cksum, input)],
              ret  |-> OkNone]

push_LengthMsb(self, input) ==
    LET len == (input * 256) + self.len_b0
    IN  IF len > MAX_LEN
        THEN [self |-> Deframer_new, ret |-> OkNone]
        ELSE [self |-> [state |-> "Message", class |-> self.class,
                        id |-> self.id, len |-> len, message |-> <<>>,
                        cksum |-> Checksum_push(self.cksum, input)],
              ret  |-> OkNone]

push_Message(self, input) ==
    LET message == Append(self.message, input)
        cksum   == Checksum_push(self.cksum, input)
    IN  IF Len(message) = self.len
        THEN [self |-> [state |-> "CkA", class |-> self.class, id |-> self.id,
                        message |-> message,
                        cksum_calc |-> Checksum_take(cksum).ret],
              ret  |-> OkNone]
        ELSE [self |-> [self EXCEPT !.message = message, !.cksum = cksum],
              ret  |-> OkNone]

\* push_CkA without the comparison against cksum_calc.0
push_CkA_unchecked(self, input) ==
    [self |-> [state |-> "CkB", class |-> self.class, id |-> self.id,
               message |-> self.message, cksum_calc |-> self.cksum_calc],
     ret  |-> OkNone]

\* push_CkA without `*self = Self::default()` on a mismatch
push_CkA_no_reset(self, input) ==
    IF input = self.cksum_calc[1]
    THEN [self |-> [state |-> "CkB", class |-> self.class, id |-> self.id,
                    message |-> self.message,
                    cksum_calc |-> self.cksum_calc],
          ret  |-> OkNone]
    ELSE [self |-> self, ret |-> ErrChecksum]

push_CkA(self, input) ==
    IF input = self.cksum_calc[1]
    THEN [self |-> [state |-> "CkB", class |-> self.class, id |-> self.id,
                    message |-> self.message,
                    cksum_calc |-> self.cksum_calc],
          ret  |-> OkNone]
    ELSE [self |-> Deframer_new, ret |-> ErrChecksum]

\* push_CkB without the comparison against cksum_calc.1
push_CkB_unchecked(self, input) ==
    [self |-> Deframer_new,
     ret  |-> OkSome(Frame(self.class, self.id, self.message))]

push_CkB(self, input) ==
    LET ret == IF input = self.cksum_calc[2]
               THEN OkSome(Frame(self.class, self.id, self.message))
               ELSE ErrChecksum
    IN  [self |-> Deframer_new, ret |-> ret]

Deframer_push(self, input) ==
    CASE self.state = "Sync"      -> push_Sync(self, input)
      [] self.state = "Class"     -> push_Class(self, input)
      [] self.state = "Id"        -> push_Id(self, input)
      [] self.state = "LengthLsb" -> push_LengthLsb(self, input)
      [] self.state = "LengthMsb" -> push_LengthMsb(self, input)
      [] self.state = "Message"   -> push_Message(self, input)
      [] self.state = "CkA"       -> push_CkA(self, input)
      [] self.state = "CkB"       -> push_CkB(self, input)

\* (the loop returns the first value that is not Ok(None), an error too)
RECURSIVE deframe_range_returns_error(_, _, _, _)
deframe_range_returns_error(deframer, bytes, lo, hi) ==
    IF lo > hi THEN [self |-> deframer, ret |-> OkNone]
    ELSE IF lo = hi
    THEN Deframer_push(deframer, bytes[lo])
    ELSE LET mid  == (lo + hi) \div 2
             left == deframe_range_returns_error(deframer, bytes, lo, mid)
         IN  IF left.ret # OkNone THEN left
             ELSE deframe_range_returns_error(left.self, bytes, mid + 1, hi)

\* the loop of deframe(): push bytes[lo..hi] in order and stop at the first
\* Frame; the range is halved to keep the evaluation shallow
RECURSIVE deframe_range(_, _, _, _)
deframe_range(deframer, bytes, lo, hi) ==
    IF lo > hi THEN [self |-> deframer, ret |-> OkNone]
    ELSE IF lo = hi
    THEN LET r == Deframer_push(deframer, bytes[lo])
         IN  [self |-> r.self,
              ret  |-> IF r.ret.kind = "Frame" THEN r.ret ELSE OkNone]
    ELSE LET mid  == (lo + hi) \div 2
             left == deframe_range(deframer, bytes, lo, mid)
         IN  IF left.ret.kind = "Frame" THEN left
             ELSE deframe_range(left.self, bytes, mid + 1, hi)

\* deframe(bytes): the one-shot utility
deframe(bytes) == deframe_range(Deframer_new, bytes, 1, Len(bytes)).ret

----------------------------------------------------------------------------
(* messages/mod.rs: trait Message, and the types that implement it         *)

\* Result<T, ()>
Ok(v) == [ok |-> TRUE, val |-> v]
Err   == [ok |-> FALSE]

\* the associated constants CLASS, ID and LEN of each impl Message
Ack         == [name |-> "Ack",         CLASS |-> ACK_CLASS, ID |-> ACK_ID, LEN |-> 2]
Nak         == [name |-> "Nak",         CLASS |-> 5, ID |-> 0,  LEN |-> 2]
SetMsgRates == [name |-> "SetMsgRates", CLASS |-> 6, ID |-> 1,  LEN |-> 8]
Prt         == [name |-> "Prt",         CLASS |-> 6, ID |-> 0,  LEN |-> 20]
TimeGps     == [name |-> "TimeGps",     CLASS |-> 1, ID |-> 32, LEN |-> 16]
Pvt         == [name |-> "Pvt",         CLASS |-> 1, ID |-> 7,  LEN |-> 92]

\* every type with an impl Message block
MessageTypes == {Ack, Nak, SetMsgRates, Prt, TimeGps, Pvt}

\* the class constants of the three category enums
AckNak_CLASS == 5
Cfg_CLASS    == 6
Nav_CLASS    == 1

\* a decoder's outcome: the value and what is left of the source buffer
Decoded(v, rest) == [ok |-> TRUE, val |-> v, src |-> rest]
Undecoded(src)   == [ok |-> FALSE, src |-> src]
Rest(src, n)     == SubSeq(src, n + 1, Len(src))

Ack_deserialize(src) ==
    IF Len(src) < Ack.LEN
    THEN Undecoded(src)
    ELSE Decoded([class |-> src[1], id |-> src[2]], Rest(src, Ack.LEN))

Nak_deserialize(src) ==
    IF Len(src) < Nak.LEN
    THEN Undecoded(src)
    ELSE Decoded([class |-> src[1], id |-> src[2]], Rest(src, Nak.LEN))

\* (the two reserved bytes are left in the source)
SetMsgRates_deserialize_six(src) ==
    IF Len(src) < SetMsgRates.LEN
    THEN Undecoded(src)
    ELSE Decoded([class |-> src[1], id |-> src[2], ddc |-> src[3],
                  uart1 |-> src[4], usb |-> src[5], spi |-> src[6]],
                 Rest(src, 6))

SetMsgRates_deserialize(src) ==
    IF Len(src) < SetMsgRates.LEN
    THEN Undecoded(src)
    ELSE Decoded([class |-> src[1], id |-> src[2], ddc |-> src[3],
                  uart1 |-> src[4], usb |-> src[5], spi |-> src[6]],
                 Rest(src, SetMsgRates.LEN))

\* The parse functions the dispatcher calls: the type's decode over the
\* message bytes.  TimeGps and Pvt values are kept as the LEN bytes they
\* are decoded from.
SetMsgRates_parse(bytes) == SetMsgRates_deserialize(bytes)

TimeGps_parse(bytes) ==
    IF Len(bytes) < TimeGps.LEN
    THEN Undecoded(bytes)
    ELSE Decoded([TimeGps |-> SubSeq(bytes, 1, TimeGps.LEN)], Rest(bytes, TimeGps.LEN))

Pvt_parse(bytes) ==
    IF Len(bytes) < Pvt.LEN
    THEN Undecoded(bytes)
    ELSE Decoded([Pvt |-> SubSeq(bytes, 1, Pvt.LEN)], Rest(bytes, Pvt.LEN))

\* the (class, id, message length) a from_frame matches on
Triple(frame) == <<frame.class, frame.id, Len(frame.message)>>
TripleOf(M)   == <<M.CLASS, M.ID, M.LEN>>

\* Ok(Variant(value)) of a decode, or the `?` on its failure
Wrap(variant, r) == IF r.ok THEN Ok([variant |-> variant, val |-> r.val]) ELSE Err

\* (the length is not matched)
AckNak_from_frame_any_len(frame) ==
    IF frame.class # AckNak_CLASS
    THEN Err
    ELSE IF <<frame.class, frame.id>> = <<Ack.CLASS, Ack.ID>>
         THEN Wrap("Ack", Ack_deserialize(frame.message))
         ELSE IF <<frame.class, frame.id>> = <<Nak.CLASS, Nak.ID>>
              THEN Wrap("Nak", Nak_deserialize(frame.message))
              ELSE Err

AckNak_from_frame(frame) ==
    IF frame.class # AckNak_CLASS
    THEN Err
    ELSE IF Triple(frame) = TripleOf(Ack)
         THEN Wrap("Ack", Ack_deserialize(frame.message))
         ELSE IF Triple(frame) = TripleOf(Nak)
              THEN Wrap("Nak", Nak_deserialize(frame.message))
              ELSE Err

\* (with an arm for Prt, which has no decoder: its bytes are kept)
Cfg_from_frame_with_prt(frame) ==
    IF frame.class # Cfg_CLASS
    THEN Err
    ELSE IF Triple(frame) = TripleOf(SetMsgRates)
         THEN Wrap("SetMsgRates", SetMsgRates_parse(frame.message))
         ELSE IF Triple(frame) = TripleOf(Prt)
              THEN Ok([variant |-> "Prt", val |-> frame.message])
              ELSE Err

Cfg_from_frame(frame) ==
    IF frame.class # Cfg_CLASS
    THEN Err
    ELSE IF Triple(frame) = TripleOf(SetMsgRates)
         THEN Wrap("SetMsgRates", SetMsgRates_parse(frame.message))
         ELSE Err

Nav_from_frame(frame) ==
    IF frame.class # Nav_CLASS
    THEN Err
    ELSE IF Triple(frame) = TripleOf(TimeGps)
         THEN Wrap("TimeGps", TimeGps_parse(frame.message))
         ELSE IF Triple(frame) = TripleOf(Pvt)
              THEN Wrap("Pvt", Pvt_parse(frame.message))
              ELSE Err

\* Ok(Msg::Variant(inner)), or the `?` on Err
Msg_of(variant, r) == IF r.ok THEN Ok([variant |-> variant, val |-> r.val]) ELSE Err

\* (the navigation arm wraps in Msg::Cfg)
Msg_from_frame_nav_as_cfg(frame) ==
    CASE frame.class = Cfg_CLASS    -> Msg_of("Cfg", Cfg_from_frame(frame))
      [] frame.class = Nav_CLASS    -> Msg_of("Cfg", Nav_from_frame(frame))
      [] frame.class = AckNak_CLASS -> Msg_of("AckNak", AckNak_from_frame(frame))
      [] OTHER                      -> Err

\* (the catch-all arm accepts the frame)
Msg_from_frame_accept_all(frame) ==
    CASE frame.class = Cfg_CLASS    -> Msg_of("Cfg", Cfg_from_frame(frame))
      [] frame.class = Nav_CLASS    -> Msg_of("Nav", Nav_from_frame(frame))
      [] frame.class = AckNak_CLASS -> Msg_of("AckNak", AckNak_from_frame(frame))
      [] OTHER                      -> Ok([variant |-> "Other", val |-> frame])

Msg_from_frame(frame) ==
    CASE frame.class = Cfg_CLASS    -> Msg_of("Cfg", Cfg_from_frame(frame))
      [] frame.class = Nav_CLASS    -> Msg_of("Nav", Nav_from_frame(frame))
      [] frame.class = AckNak_CLASS -> Msg_of("AckNak", AckNak_from_frame(frame))
      [] OTHER                      -> Err

----------------------------------------------------------------------------
(* messages/cfg/prt.rs: Prt::to_bytes                                      *)

I2C_PORT  == 0
UART_PORT == 1
SPI_PORT  == 4

\* byteorder's write_u16::<LE> and write_u32::<LE>
LE16(v) == <<v % 256, (v \div 256) % 256>>
LE32(v) == <<v % 256, (v \div 256) % 256, (v \div 65536) % 256, (v \div 16777216) % 256>>

\* the bytes the cursor writes for a value of Prt
Prt_bytes(self) ==
    CASE self.port = "Uart" ->
            <<UART_PORT, 0>> \o LE16(self.tx_ready) \o LE32(self.mode)
                \o LE32(self.baud_rate)
                \o LE16(self.in_proto_mask) \o LE16(self.out_proto_mask)
                \o LE16(self.flags) \o LE16(0)
      [] self.port = "I2c" ->
            <<I2C_PORT, 0>> \o LE16(self.tx_ready) \o LE32(self.mode)
                \o LE32(0)
                \o LE16(self.in_proto_mask) \o LE16(self.out_proto_mask)
                \o LE16(self.flags) \o LE16(0)
      [] self.port = "Spi" ->
            <<SPI_PORT, 0>> \o LE16(self.tx_ready) \o LE32(self.mode)
                \o LE32(0)
                \o LE16(self.in_proto_mask) \o LE16(self.out_proto_mask)
                \o LE16(self.flags) \o LE16(0)

\* buf with bytes written over it from index at (1-based) on
Overwrite(buf, at, bytes) ==
    [i \in 1 .. Len(buf) |->
        IF i >= at /\ i < at + Len(bytes) THEN bytes[i - at + 1] ELSE buf[i]]

\* The cursor writes into dst until dst is full; a write past its end
\* fails.  Returns the outcome and dst as it is left.
Prt_to_bytes(self, dst) ==
    IF Len(dst) < Len(Prt_bytes(self))
    THEN [ok |-> FALSE, dst |-> Overwrite(dst, 1, SubSeq(Prt_bytes(self), 1, Len(dst)))]
    ELSE [ok |-> TRUE, dst |-> Overwrite(dst, 1, Prt_bytes(self))]

----------------------------------------------------------------------------
(* messages: serialize and deserialize of each message type                *)

\* bytes::BufMut as serialize uses it: the bytes written so far and the
\* room left
remaining_mut(dst) == dst.free
put(dst, bytes)    == [buf |-> dst.buf \o bytes, free |-> dst.free - Len(bytes)]

\* BufMut::put_u8, put_i8, put_u16_le, put_i16_le, put_u32_le, put_i32_le:
\* the value's two's complement bytes, least significant first
put_u8(v)     == <<v % 256>>
put_i8(v)     == <<v % 256>>
put_u16_le(v) == <<v % 256, (v \div 256) % 256>>
put_i16_le(v) == <<v % 256, (v \div 256) % 256>>
put_u32_le(v) == <<v % 256, (v \div 256) % 256, (v \div 65536) % 256, (v \div 16777216) % 256>>
put_i32_le(v) == <<v % 256, (v \div 256) % 256, (v \div 65536) % 256, (v \div 16777216) % 256>>

\* a byte read as a signed value
Signed8(b) == IF b >= 128 THEN b - 256 ELSE b

\* Buf::get_u8 .. get_i32_le, reading src from index at (1-based)
get_u8(src, at)     == src[at]
get_i8(src, at)     == Signed8(src[at])
get_u16_le(src, at) == src[at] + (256 * src[at + 1])
get_i16_le(src, at) == src[at] + (256 * Signed8(src[at + 1]))
get_u32_le(src, at) ==
    src[at] + (256 * src[at + 1]) + (65536 * src[at + 2]) + (16777216 * src[at + 3])
get_i32_le(src, at) ==
    src[at] + (256 * src[at + 1]) + (65536 * src[at + 2])
        + (16777216 * Signed8(src[at + 3]))

\* Ack::serialize
Ack_bytes(self) ==
    put_u8(self.class)
        \o put_u8(self.id)

Ack_serialize(self, dst) ==
    IF remaining_mut(dst) < Ack.LEN
    THEN [ok |-> FALSE, dst |-> dst]
    ELSE [ok |-> TRUE, dst |-> put(dst, Ack_bytes(self))]

\* Nak::serialize
Nak_bytes(self) ==
    put_u8(self.class)
        \o put_u8(self.id)

Nak_serialize(self, dst) ==
    IF remaining_mut(dst) < Nak.LEN
    THEN [ok |-> FALSE, dst |-> dst]
    ELSE [ok |-> TRUE, dst |-> put(dst, Nak_bytes(self))]

\* SetMsgRates::serialize
SetMsgRates_bytes(self) ==
    put_u8(self.class)
        \o put_u8(self.id)
        \o put_u8(self.ddc)
        \o put_u8(self.uart1)
        \o put_u8(self.usb)
        \o put_u8(self.spi)
        \o <<0>>
        \o <<0>>

SetMsgRates_serialize(self, dst) ==
    IF remaining_mut(dst) < SetMsgRates.LEN
    THEN [ok |-> FALSE, dst |-> dst]
    ELSE [ok |-> TRUE, dst |-> put(dst, SetMsgRates_bytes(self))]

\* (the week is read as an unsigned value)
TimeGps_deserialize_unsigned_week(src) ==
    IF Len(src) < TimeGps.LEN
    THEN Undecoded(src)
    ELSE Decoded([iTOW |-> get_u32_le(src, 1),
                  fTOW |-> get_i32_le(src, 5),
                  week |-> get_u16_le(src, 9),
                  leapS |-> get_i8(src, 11),
                  valid |-> get_u8(src, 12),
                  tAcc |-> get_u32_le(src, 13)],
                 Rest(src, 16))

\* TimeGps::serialize and TimeGps::deserialize
TimeGps_bytes(self) ==
    put_u32_le(self.iTOW)
        \o put_i32_le(self.fTOW)
        \o put_i16_le(self.week)
        \o put_i8(self.leapS)
        \o put_u8(self.valid)
        \o put_u32_le(self.tAcc)

TimeGps_serialize(self, dst) ==
    IF remaining_mut(dst) < TimeGps.LEN
    THEN [ok |-> FALSE, dst |-> dst]
    ELSE [ok |-> TRUE, dst |-> put(dst, TimeGps_bytes(self))]

TimeGps_deserialize(src) ==
    IF Len(src) < TimeGps.LEN
    THEN Undecoded(src)
    ELSE Decoded([iTOW |-> get_u32_le(src, 1),
                  fTOW |-> get_i32_le(src, 5),
                  week |-> get_i16_le(src, 9),
                  leapS |-> get_i8(src, 11),
                  valid |-> get_u8(src, 12),
                  tAcc |-> get_u32_le(src, 13)],
                 Rest(src, 16))

\* Pvt::serialize and Pvt::deserialize
Pvt_bytes(self) ==
    put_u32_le(self.TOW)
        \o put_u16_le(self.year)
        \o put_u8(self.month)
        \o put_u8(self.day)
        \o put_u8(self.hour)
        \o put_u8(self.min)
        \o put_u8(self.sec)
        \o put_u8(self.valid)
        \o put_u32_le(self.tAcc)
        \o put_i32_le(self.nano)
        \o put_u8(self.fxType)
        \o put_u8(self.flags)
        \o put_u8(self.flags2)
        \o put_u8(self.numSV)
        \o put_i32_le(self.lon)
        \o put_i32_le(self.lat)
        \o put_i32_le(self.height)
        \o put_i32_le(self.hMSL)
        \o put_u32_le(self.hAcc)
        \o put_u32_le(self.vAcc)
        \o put_i32_le(self.velN)
        \o put_i32_le(self.velE)
        \o put_i32_le(self.velD)
        \o put_i32_le(self.gSpeed)
        \o put_i32_le(self.headMot)
        \o put_u32_le(self.sAcc)
        \o put_u32_le(self.headAcc)
        \o put_u16_le(self.pDOP)
        \o put_u8(self.flags3)
        \o <<0, 0, 0, 0, 0>>
        \o put_i32_le(self.headVeh)
        \o put_i16_le(self.magDec)
        \o put_u16_le(self.macAcc)

Pvt_serialize(self, dst) ==
    IF remaining_mut(dst) < Pvt.LEN
    THEN [ok |-> FALSE, dst |-> dst]
    ELSE [ok |-> TRUE, dst |-> put(dst, Pvt_bytes(self))]

Pvt_deserialize(src) ==
    IF Len(src) < Pvt.LEN
    THEN Undecoded(src)
    ELSE Decoded([TOW |-> get_u32_le(src, 1),
                  year |-> get_u16_le(src, 5),
                  month |-> get_u8(src, 7),
                  day |-> get_u8(src, 8),
                  hour |-> get_u8(src, 9),
                  min |-> get_u8(src, 10),
                  sec |-> get_u8(src, 11),
                  valid |-> get_u8(src, 12),
                  tAcc |-> get_u32_le(src, 13),
                  nano |-> get_i32_le(src, 17),
                  fxType |-> get_u8(src, 21),
                  flags |-> get_u8(src, 22),
                  flags2 |-> get_u8(src, 23),
                  numSV |-> get_u8(src, 24),
                  lon |-> get_i32_le(src, 25),
                  lat |-> get_i32_le(src, 29),
                  height |-> get_i32_le(src, 33),
                  hMSL |-> get_i32_le(src, 37),
                  hAcc |-> get_u32_le(src, 41),
                  vAcc |-> get_u32_le(src, 45),
                  velN |-> get_i32_le(src, 49),
                  velE |-> get_i32_le(src, 53),
                  velD |-> get_i32_le(src, 57),
                  gSpeed |-> get_i32_le(src, 61),
                  headMot |-> get_i32_le(src, 65),
                  sAcc |-> get_u32_le(src, 69),
                  headAcc |-> get_u32_le(src, 73),
                  pDOP |-> get_u16_le(src, 77),
                  flags3 |-> get_u8(src, 79),
                  headVeh |-> get_i32_le(src, 85),
                  magDec |-> get_i16_le(src, 89),
                  macAcc |-> get_u16_le(src, 91)],
                 Rest(src, 92))

\* M::serialize and M::deserialize for the type M
serialize(M, self, dst) ==
    CASE M = Ack         -> Ack_serialize(self, dst)
      [] M = Nak         -> Nak_serialize(self, dst)
      [] M = SetMsgRates -> SetMsgRates_serialize(self, dst)
      [] M = TimeGps     -> TimeGps_serialize(self, dst)
      [] M = Pvt         -> Pvt_serialize(self, dst)

deserialize(M, src) ==
    CASE M = Ack         -> Ack_deserialize(src)
      [] M = Nak         -> Nak_deserialize(src)
      [] M = SetMsgRates -> SetMsgRates_deserialize(src)
      [] M = TimeGps     -> TimeGps_deserialize(src)
      [] M = Pvt         -> Pvt_deserialize(src)

\* the types with serialize and deserialize
CodecTypes == {Ack, Nak, SetMsgRates, TimeGps, Pvt}

----------------------------------------------------------------------------
(* framing/frame.rs: frame()                                               *)

\* (the checksum runs from class to the end of the message only)
frame_cksm_scope_message(buf, LEN) == SubSeq(buf, 1, LEN + 6)

\* the bytes `buf.iter().skip(2)` runs over, before the skip: buf has been
\* cut to LEN + FRAME_OVERHEAD bytes, the two checksum bytes included
frame_cksm_scope(buf, LEN) == buf

\* (the capacity test turns down a buffer of exactly the size needed)
frame_too_short_or_exact(buf, LEN) == Len(buf) <= FRAME_OVERHEAD + LEN

frame_too_short(buf, LEN) == Len(buf) < FRAME_OVERHEAD + LEN

\* (the prelude is written before the capacity test)
frame_msg_prelude_first(msg, buf) ==
    LET prelude == <<SYNC1, SYNC2, Prt.CLASS, Prt.ID>> \o LE16(Prt.LEN % 65536)
        b1      == Overwrite(buf, 1, prelude)
    IN  IF frame_too_short(buf, Prt.LEN)
        THEN [ret |-> Err, buf |-> b1]
        ELSE LET body == Prt_to_bytes(msg, SubSeq(b1, 7, Prt.LEN + 6))
                 b2   == Overwrite(b1, 7, body.dst)
                 cksm == push_all(Checksum_default,
                                  SubSeq(b2, 1, Prt.LEN + FRAME_OVERHEAD), CKSUM_SKIP)
                 ck   == Checksum_take(cksm).ret
             IN  [ret |-> Ok(Prt.LEN + FRAME_OVERHEAD),
                  buf |-> Overwrite(b2, Prt.LEN + 7, <<ck[1], ck[2]>>)]

\* frame::<Prt>(msg, buf): the outcome and buf as it is left
frame_msg(msg, buf) ==
    IF frame_too_short(buf, Prt.LEN)
    THEN [ret |-> Err, buf |-> buf]
    ELSE LET cut     == SubSeq(buf, 1, Prt.LEN + FRAME_OVERHEAD)
             beyond  == Rest(buf, Prt.LEN + FRAME_OVERHEAD)
             prelude == <<SYNC1, SYNC2, Prt.CLASS, Prt.ID>> \o LE16(Prt.LEN % 65536)
             b1      == Overwrite(cut, 1, prelude)
             body    == Prt_to_bytes(msg, SubSeq(b1, 7, Prt.LEN + 6))
             b2      == Overwrite(b1, 7, body.dst)
             cksm    == push_all(Checksum_default, frame_cksm_scope(b2, Prt.LEN), CKSUM_SKIP)
             ck      == Checksum_take(cksm).ret
             b3      == Overwrite(b2, Prt.LEN + 7, <<ck[1], ck[2]>>)
         IN  IF body.ok
             THEN [ret |-> Ok(Prt.LEN + FRAME_OVERHEAD), buf |-> b3 \o beyond]
             ELSE [ret |-> Err, buf |-> b2 \o beyond]

----------------------------------------------------------------------------
(* The streams a behaviour may be fed                                      *)

SeqsUpTo(S, n) == UNION { [1 .. k -> S] : k \in 0 .. n }
Fill(n, b)     == [i \in 1 .. n |-> b]

\* byte values of the enumerated payloads: a data byte and the sync bytes
PayloadBytes == {6, SYNC2, SYNC1}
\* byte values of the noise
NoiseBytes   == {0, SYNC2, SYNC1}
\* byte values of the free streams
FreeBytes    == {0, 1, SYNC2, SYNC1}

HasSync(bytes) ==
    \E i \in 1 .. Len(bytes) - 1 : bytes[i] = SYNC1 /\ bytes[i + 1] = SYNC2


Frames     == { Frame(ACK_CLASS, ACK_ID, p) : p \in SeqsUpTo(PayloadBytes, MaxPayload) }
TailFrames == { Frame(ACK_CLASS, ACK_ID, <<>>), Frame(ACK_CLASS, ACK_ID, <<6>>) }
\* frames at the ceiling and one byte above it
LongFrames == { Frame(ACK_CLASS, ACK_ID, Fill(n, 6)) : n \in {MAX_LEN, MAX_LEN + 1} }

Noises == { n \in SeqsUpTo(NoiseBytes, MaxNoise) : ~HasSync(n) }

\* a wire message with one of its two checksum bytes replaced
Corrupt(bytes, back, b) == [bytes EXCEPT ![Len(bytes) - back] = b]
Corrupted(bytes) ==
    { Corrupt(bytes, back, b) : back \in {0, 1}, b \in {0, 6, 255} } \ {bytes}

\* the six header bytes for a declared length
Header(len) == <<SYNC1, SYNC2, ACK_CLASS, ACK_ID, len % 256, len \div 256>>
HeaderLens  == {0, 1, MAX_LEN, MAX_LEN + 1, 1024, 65535}

\* the message of test_deframe: B5 62 05 01 01 00 06 0D 26
TEST_VECTOR == <<181, 98, 5, 1, 1, 0, 6, 13, 38>>

\* the frames sent back to back, and their concatenations
BackFrames == { Frame(ACK_CLASS, ACK_ID, <<6>>), Frame(ACK_CLASS, 0, <<6, SYNC1>>) }
RECURSIVE Concat(_)
Concat(ws) == IF ws = <<>> THEN <<>> ELSE Head(ws) \o Concat(Tail(ws))
BackToBack ==
    { Concat([i \in 1 .. Len(fs) |-> into_framed_vec(fs[i])]) :
        fs \in SeqsUpTo(BackFrames, MaxBackToBack) }

\* the ACK-ACK frame that acknowledges a CFG-PRT message
ACK_OF_PRT == Frame(Ack.CLASS, Ack.ID, <<Prt.CLASS, Prt.ID>>)

Streams ==
    \* the test vector, and messages sent back to back
         {TEST_VECTOR}
    \cup BackToBack
    \* noise, then a valid message
    \cup { n \o into_framed_vec(f) : n \in Noises, f \in Frames }
    \* a valid or corrupted message, then a valid message
    \cup { w \o into_framed_vec(g) :
             w \in UNION { {into_framed_vec(f)} \cup Corrupted(into_framed_vec(f))
                           : f \in Frames },
             g \in TailFrames }
    \* a header alone, and a header followed by a valid message
    \cup { Header(l) \o t :
             l \in HeaderLens,
             t \in {<<>>} \cup { into_framed_vec(g) : g \in TailFrames } }
    \* messages at and above the ceiling
    \cup { into_framed_vec(f) : f \in LongFrames }
    \* a zero-length header followed by a long run of bytes
    \cup { Header(0) \o Fill(MAX_LEN + 2, 6) }
    \* free bytes
    \cup SeqsUpTo(FreeBytes, MaxFree)
    \* a long run of one byte that is no sync word, then a valid message
    \cup { Fill(MaxRun, b) \o TEST_VECTOR : b \in FreeBytes }
    \* a corrupted acknowledgement, then a valid one
    \cup { w \o into_framed_vec(ACK_OF_PRT) : w \in Corrupted(into_framed_vec(ACK_OF_PRT)) }
    \* a header abandoned on a length MSB of 0xB5, then 0x62 and a valid message
    \cup { Header(SYNC1 * 256) \o <<SYNC2>> \o TEST_VECTOR }

----------------------------------------------------------------------------
(* The state machine of the Deframer                                       *)

\* a Checksum just made by Checksum::new(), no call made on it
ChecksumIdle ==
    /\ checksum = Checksum_default
    /\ checksum_was = Checksum_default
    /\ checksum_in = <<>>
    /\ checksum_ret = [op |-> "new"]

\* no second and third Deframer
NoInsts == <<>>

\* no Deframer of framing.rs
NoFraming == [deframer |-> <<>>, outs |-> <<>>, above |-> FALSE]

\* no I2C loop, and so no scratch buffer
NoScratch == [read_buf |-> <<>>, read_len |-> 0]

\* no call, and a call not made yet
NoCall   == [op |-> "none"]
NoResult == [done |-> FALSE]
Returned(v) == [done |-> TRUE, ret |-> v]

Init ==
    /\ stream \in Streams
    /\ pos = 0
    /\ d = Deframer_new
    /\ prev = Deframer_new
    /\ outs = <<>>
    /\ away = 0
    /\ call = NoCall
    /\ result = NoResult
    /\ ChecksumIdle
    /\ insts = NoInsts
    /\ console = <<>>
    /\ scratch = NoScratch
    /\ framing = NoFraming

\* the match on what push returned: an error is printed, Ok(None) passes
\* in silence, a Frame goes to Msg::from_frame and the message, or the
\* frame nothing was made of, is printed
file_loop_match(res) ==
    CASE res.kind = "Checksum" -> <<[line |-> "deframe error", e |-> res]>>
      [] res.kind = "None"     -> <<>>
      [] res.kind = "Frame"    ->
            LET msg == Msg_from_frame(res.frame)
            IN  IF msg.ok
                THEN <<[line |-> "msg", msg |-> msg.val]>>
                ELSE <<[line |-> "unhandled frame", frame |-> res.frame]>>

\* the transport loop hands the next byte to Deframer::push
Push ==
    /\ pos < Len(stream)
    /\ LET r == Deframer_push(d, stream[pos + 1])
       IN  /\ d' = r.self
           /\ outs' = Append(outs, r.ret)
           /\ console' = console \o file_loop_match(r.ret)
           /\ away' = IF r.self.state = "Sync" THEN 0 ELSE away + 1
    /\ prev' = d
    /\ pos' = pos + 1
    /\ UNCHANGED <<stream, call, result, kvars, insts, scratch, framing>>

Next == Push

Spec == Init /\ [][Next]_vars

----------------------------------------------------------------------------
(* The state machine of single calls                                       *)

Ramp(n) == [i \in 1 .. n |-> i % 256]

\* frames handed to Msg::from_frame: every class, id and length of a
\* message type, the lengths next to them, and values of no type
DispatchClasses == { M.CLASS : M \in MessageTypes } \cup {0, 7, 255}
DispatchIds     == { M.ID : M \in MessageTypes } \cup {2}
DispatchLens    == {0} \cup UNION { {M.LEN - 1, M.LEN, M.LEN + 1} : M \in MessageTypes }
DispatchFrames  ==
    { Frame(c, i, Ramp(n)) : c \in DispatchClasses, i \in DispatchIds, n \in DispatchLens }

\* values of Prt
PrtCommon ==
    [tx_ready : {0, 513}, mode : {2256, 16909060},
     in_proto_mask : {1, 7}, out_proto_mask : {1}, flags : {0, 2}]
PrtValues ==
    { [port |-> "Uart", tx_ready |-> c.tx_ready, mode |-> c.mode, baud_rate |-> b,
       in_proto_mask |-> c.in_proto_mask, out_proto_mask |-> c.out_proto_mask,
       flags |-> c.flags] : c \in PrtCommon, b \in {9600, 115200} }
    \cup
    { [port |-> p, tx_ready |-> c.tx_ready, mode |-> c.mode,
       in_proto_mask |-> c.in_proto_mask, out_proto_mask |-> c.out_proto_mask,
       flags |-> c.flags] : c \in PrtCommon, p \in {"I2c", "Spi"} }

\* output buffers handed to frame(): empty, one byte short, exact, longer,
\* and the scratch buffer of the I2C loop; zeroed, all ones, or used
BufLens ==
    {0, I2C_SCRATCH}
        \cup ((Prt.LEN + FRAME_OVERHEAD - 1) .. (Prt.LEN + FRAME_OVERHEAD + MaxSlack))
Bufs == UNION { {Fill(n, 0), Fill(n, 255), Ramp(n)} : n \in BufLens }

\* the fields of each type and what each is read with
Ack_fields ==
    <<<<"class", "u8">>,
      <<"id", "u8">>>>

Nak_fields ==
    <<<<"class", "u8">>,
      <<"id", "u8">>>>

SetMsgRates_fields ==
    <<<<"class", "u8">>,
      <<"id", "u8">>,
      <<"ddc", "u8">>,
      <<"uart1", "u8">>,
      <<"usb", "u8">>,
      <<"spi", "u8">>>>

TimeGps_fields ==
    <<<<"iTOW", "u32_le">>,
      <<"fTOW", "i32_le">>,
      <<"week", "i16_le">>,
      <<"leapS", "i8">>,
      <<"valid", "u8">>,
      <<"tAcc", "u32_le">>>>

Pvt_fields ==
    <<<<"TOW", "u32_le">>,
      <<"year", "u16_le">>,
      <<"month", "u8">>,
      <<"day", "u8">>,
      <<"hour", "u8">>,
      <<"min", "u8">>,
      <<"sec", "u8">>,
      <<"valid", "u8">>,
      <<"tAcc", "u32_le">>,
      <<"nano", "i32_le">>,
      <<"fxType", "u8">>,
      <<"flags", "u8">>,
      <<"flags2", "u8">>,
      <<"numSV", "u8">>,
      <<"lon", "i32_le">>,
      <<"lat", "i32_le">>,
      <<"height", "i32_le">>,
      <<"hMSL", "i32_le">>,
      <<"hAcc", "u32_le">>,
      <<"vAcc", "u32_le">>,
      <<"velN", "i32_le">>,
      <<"velE", "i32_le">>,
      <<"velD", "i32_le">>,
      <<"gSpeed", "i32_le">>,
      <<"headMot", "i32_le">>,
      <<"sAcc", "u32_le">>,
      <<"headAcc", "u32_le">>,
      <<"pDOP", "u16_le">>,
      <<"flags3", "u8">>,
      <<"headVeh", "i32_le">>,
      <<"magDec", "i16_le">>,
      <<"macAcc", "u16_le">>>>

\* the values the codec calls are made on: for each type one value per
\* profile, each field at the extreme of its width, or a value of its own
Profiles == {"zero", "high", "low", "mixed"}

Mixed(kind, j) ==
    CASE kind = "u8"     -> j
      [] kind = "i8"     -> 0 - j
      [] kind = "u16_le" -> (256 * j) + j + 1
      [] kind = "i16_le" -> 0 - ((256 * j) + j + 1)
      [] kind = "u32_le" -> (16777216 * j) + (65536 * (j + 1)) + (256 * (j + 2)) + j + 3
      [] kind = "i32_le" -> 0 - ((16777216 * j) + (65536 * (j + 1)) + (256 * (j + 2)) + j + 3)

High(kind) ==
    CASE kind = "u8"     -> 255
      [] kind = "i8"     -> 127
      [] kind = "u16_le" -> 65535
      [] kind = "i16_le" -> 32767
      [] kind = "u32_le" -> 2147483647
      [] kind = "i32_le" -> 2147483647

Low(kind) ==
    CASE kind = "u8"     -> 128
      [] kind = "i8"     -> 0 - 128
      [] kind = "u16_le" -> 32768
      [] kind = "i16_le" -> 0 - 32768
      [] kind = "u32_le" -> 16777216
      [] kind = "i32_le" -> 0 - 2147483647

FieldValue(kind, j, p) ==
    CASE p = "zero"  -> 0
      [] p = "high"  -> High(kind)
      [] p = "low"   -> Low(kind)
      [] p = "mixed" -> Mixed(kind, j)

ValueOf(fields, p) ==
    [f \in { fields[j][1] : j \in DOMAIN fields } |->
        LET j == CHOOSE k \in DOMAIN fields : fields[k][1] = f
        IN  FieldValue(fields[j][2], j, p)]

FieldsOf(M) ==
    CASE M = Ack         -> Ack_fields
      [] M = Nak         -> Nak_fields
      [] M = SetMsgRates -> SetMsgRates_fields
      [] M = TimeGps     -> TimeGps_fields
      [] M = Pvt         -> Pvt_fields

\* a buffer to serialize into: what it holds already, and the room left
Dsts(M) ==
    { [buf |-> held, free |-> n] :
        held \in {<<>>, <<SYNC1>>},
        n \in {0} \cup ((M.LEN - 1) .. (M.LEN + MaxSlack)) }

CodecCalls ==
    UNION { { [op |-> "codec", type |-> M, msg |-> ValueOf(FieldsOf(M), p), dst |-> dst] :
                p \in Profiles, dst \in Dsts(M) } : M \in CodecTypes }

\* a source to deserialize from: empty, one byte short, exact, longer
Srcs(M) ==
    UNION { {Ramp(n), Fill(n, 127)} :
              n \in {0} \cup ((M.LEN - 1) .. (M.LEN + MaxSlack)) }

DeserializeCalls ==
    UNION { { [op |-> "deserialize", type |-> M, src |-> src] : src \in Srcs(M) } :
              M \in CodecTypes }

\* frames handed to Frame::into_framed_vec
EncodeLens   == {0, 1, 2, 255, 256, 257, MAX_LEN, MAX_LEN + 1, 65535}
EncodeFrames ==
    { Frame(ACK_CLASS, ACK_ID, m) : m \in SeqsUpTo(PayloadBytes, MaxPayload) }
        \cup { Frame(c, c, Ramp(n)) : c \in {0, 255}, n \in EncodeLens }
        \cup { Frame(ACK_CLASS, ACK_ID, Fill(n, 255)) : n \in EncodeLens }

Calls ==
    { [op |-> "from_frame", frame |-> f] : f \in DispatchFrames }
        \cup { [op |-> "frame", msg |-> m, buf |-> b] : m \in PrtValues, b \in Bufs }
        \cup { [op |-> "into_framed_vec", frame |-> f] : f \in EncodeFrames }
        \cup CodecCalls
        \cup DeserializeCalls

InitCalls ==
    /\ call \in Calls
    /\ result = NoResult
    /\ ChecksumIdle
    /\ insts = NoInsts
    /\ console = <<>>
    /\ scratch = NoScratch
    /\ framing = NoFraming
    /\ stream = <<>>
    /\ pos = 0
    /\ d = Deframer_new
    /\ prev = Deframer_new
    /\ outs = <<>>
    /\ away = 0

CallFromFrame ==
    /\ call.op = "from_frame"
    /\ ~result.done
    /\ result' = Returned(Msg_from_frame(call.frame))
    /\ UNCHANGED <<stream, pos, d, prev, outs, away, call, kvars, insts, console, scratch, framing>>

CallFrame ==
    /\ call.op = "frame"
    /\ ~result.done
    /\ result' = Returned(frame_msg(call.msg, call.buf))
    /\ UNCHANGED <<stream, pos, d, prev, outs, away, call, kvars, insts, console, scratch, framing>>

CallIntoFramedVec ==
    /\ call.op = "into_framed_vec"
    /\ ~result.done
    /\ result' = Returned(into_framed_vec(call.frame))
    /\ UNCHANGED <<stream, pos, d, prev, outs, away, call, kvars, insts, console, scratch, framing>>

\* M::serialize into a buffer, then M::deserialize of the bytes it wrote
CallCodec ==
    /\ call.op = "codec"
    /\ ~result.done
    /\ LET ser     == serialize(call.type, call.msg, call.dst)
           written == Rest(ser.dst.buf, Len(call.dst.buf))
       IN  result' = Returned([ser |-> ser, written |-> written,
                               de |-> IF ser.ok
                                      THEN deserialize(call.type, written)
                                      ELSE Undecoded(written)])
    /\ UNCHANGED <<stream, pos, d, prev, outs, away, call, kvars, insts, console, scratch, framing>>

\* M::deserialize from a source
CallDeserialize ==
    /\ call.op = "deserialize"
    /\ ~result.done
    /\ result' = Returned(deserialize(call.type, call.src))
    /\ UNCHANGED <<stream, pos, d, prev, outs, away, call, kvars, insts, console, scratch, framing>>

NextCalls ==
    CallFromFrame \/ CallFrame \/ CallIntoFramedVec \/ CallCodec \/ CallDeserialize

SpecCalls == InitCalls /\ [][NextCalls]_vars

----------------------------------------------------------------------------
(* The state machine of a Checksum                                         *)

\* bytes pushed onto the Checksum: enough for both sums to pass 255
CksmBytes == {0, 1, 128, 255}

InitChecksum ==
    /\ ChecksumIdle
    /\ insts = NoInsts
    /\ console = <<>>
    /\ scratch = NoScratch
    /\ framing = NoFraming
    /\ call = NoCall
    /\ result = NoResult
    /\ stream = <<>>
    /\ pos = 0
    /\ d = Deframer_new
    /\ prev = Deframer_new
    /\ outs = <<>>
    /\ away = 0

CksmPush ==
    \E input \in CksmBytes :
        /\ Len(checksum_in) < MaxPushes
        /\ checksum' = Checksum_push(checksum, input)
        /\ checksum_was' = checksum
        /\ checksum_in' = Append(checksum_in, input)
        /\ checksum_ret' = [op |-> "push", after |-> checksum_ret.op, arg |-> input,
                            val |-> Checksum_push_ret(checksum, input)]
        /\ UNCHANGED <<stream, pos, d, prev, outs, away, call, result, insts, console, scratch, framing>>

CksmTake ==
    /\ checksum' = Checksum_take(checksum).self
    /\ checksum_was' = checksum
    /\ checksum_in' = <<>>
    /\ checksum_ret' = [op |-> "take", after |-> checksum_ret.op, of |-> checksum_in,
                        val |-> Checksum_take(checksum).ret]
    /\ UNCHANGED <<stream, pos, d, prev, outs, away, call, result, insts, console, scratch, framing>>

NextChecksum == CksmPush \/ CksmTake

SpecChecksum == InitChecksum /\ [][NextChecksum]_vars

----------------------------------------------------------------------------
(* The state machine of two Deframers                                      *)

\* a Deframer with the stream it is fed: how far the stream has been
\* pushed, the Deframer, what it was before the last push, the values
\* returned and the states passed through
Instance(bytes) ==
    [stream |-> bytes, pos |-> 0, d |-> Deframer_new, was |-> Deframer_new,
     outs |-> <<>>, seen |-> <<>>]

\* (there is one Deframer, which both instances use)
Instance_push_shared(is, i, input) ==
    LET r == Deframer_push(is[i].d, input)
    IN  [j \in DOMAIN is |->
            IF j = i
            THEN [stream |-> is[i].stream, pos |-> is[i].pos + 1,
                  d |-> r.self, was |-> is[i].d,
                  outs |-> Append(is[i].outs, r.ret),
                  seen |-> Append(is[i].seen, r.self)]
            ELSE [is[j] EXCEPT !.d = r.self]]

\* (a message not complete after nine bytes is given up)
Instance_push_timeout(is, i, input) ==
    LET r == IF is[i].pos >= 9 /\ is[i].d.state # "Sync"
             THEN [self |-> Deframer_new, ret |-> OkNone]
             ELSE Deframer_push(is[i].d, input)
    IN  [is EXCEPT ![i] =
            [stream |-> is[i].stream, pos |-> is[i].pos + 1,
             d |-> r.self, was |-> is[i].d,
             outs |-> Append(is[i].outs, r.ret),
             seen |-> Append(is[i].seen, r.self)]]

\* push(&mut self, input) on instance i: nothing but that instance changes
Instance_push(is, i, input) ==
    LET r == Deframer_push(is[i].d, input)
    IN  [is EXCEPT ![i] =
            [stream |-> is[i].stream, pos |-> is[i].pos + 1,
             d |-> r.self, was |-> is[i].d,
             outs |-> Append(is[i].outs, r.ret),
             seen |-> Append(is[i].seen, r.self)]]

\* the streams the two Deframers are fed: a valid message, one with a bad
\* checksum byte, one after noise, one after an over-length header, and one
\* with the sync word in its payload
PairStreams ==
    { TEST_VECTOR,
      Corrupt(TEST_VECTOR, 0, 0),
      <<0, SYNC1>> \o TEST_VECTOR,
      Header(MAX_LEN + 1) \o TEST_VECTOR,
      into_framed_vec(Frame(ACK_CLASS, 0, <<SYNC1, SYNC2>>)) }

InitPair ==
    /\ insts \in { <<Instance(a), Instance(b)>> : a \in PairStreams, b \in PairStreams }
    /\ ChecksumIdle
    /\ call = NoCall
    /\ result = NoResult
    /\ stream = <<>>
    /\ pos = 0
    /\ d = Deframer_new
    /\ prev = Deframer_new
    /\ outs = <<>>
    /\ away = 0
    /\ console = <<>>
    /\ scratch = NoScratch
    /\ framing = NoFraming

PushOn(i) ==
    /\ insts[i].pos < Len(insts[i].stream)
    /\ insts' = Instance_push(insts, i, insts[i].stream[insts[i].pos + 1])
    /\ UNCHANGED <<stream, pos, d, prev, outs, away, call, result, kvars, console, scratch, framing>>

NextPair == \E i \in DOMAIN insts : PushOn(i)

SpecPair == InitPair /\ [][NextPair]_vars

----------------------------------------------------------------------------
(* The Deframer of framing.rs, the version with the Option-based Checksum  *)
(* and no ceiling on the length, fed alongside the one of deframer.rs      *)

\* Checksum(Option<(u8, u8)>)
framing_None == [some |-> FALSE]
framing_Some(pair) == [some |-> TRUE, pair |-> pair]
framing_Checksum_default == framing_None

\* (the sums start again from (0, 0) at every byte)
framing_Checksum_push_fresh(self, input) ==
    framing_Some(<<input, input>>)

\* `get_or_insert((0, 0))`, then the two wrapping adds
framing_Checksum_push(self, input) ==
    LET pair == IF self.some THEN self.pair ELSE <<0, 0>>
        ck_a == (pair[1] + input) % 256
        ck_b == (pair[2] + ck_a) % 256
    IN  framing_Some(<<ck_a, ck_b>>)

framing_Checksum_with(input) == framing_Checksum_push(framing_Checksum_default, input)

\* `self.0.take().unwrap_or((0, 0))`
framing_Checksum_take(self) ==
    [ret  |-> IF self.some THEN self.pair ELSE <<0, 0>>,
     self |-> framing_None]

framing_Frame(class, id, payload) == [class |-> class, id |-> id, payload |-> payload]

framing_Deframer_new == [state |-> "Sync", accum |-> 0]

framing_push_Sync(self, input) ==
    LET accum == ((self.accum * 256) % 65536) + input
    IN  IF accum = SYNCWORD
        THEN [self |-> [state |-> "Class"], ret |-> OkNone]
        ELSE [self |-> [state |-> "Sync", accum |-> accum], ret |-> OkNone]

framing_push_Class(self, input) ==
    [self |-> [state |-> "Id", class |-> input, cksum |-> framing_Checksum_with(input)],
     ret  |-> OkNone]

framing_push_Id(self, input) ==
    [self |-> [state |-> "LengthLsb", class |-> self.class, id |-> input,
               cksum |-> framing_Checksum_push(self.cksum, input)],
     ret  |-> OkNone]

framing_push_LengthLsb(self, input) ==
    [self |-> [state |-> "LengthMsb", class |-> self.class, id |-> self.id,
               len_b0 |-> input,
               cksum |-> framing_Checksum_push(self.cksum, input)],
     ret  |-> OkNone]

\* no test of len: every declared length goes on to Payload
framing_push_LengthMsb(self, input) ==
    LET len == (input * 256) + self.len_b0
    IN  [self |-> [state |-> "Payload", class |-> self.class, id |-> self.id,
                   len |-> len, payload |-> <<>>,
                   cksum |-> framing_Checksum_push(self.cksum, input)],
         ret  |-> OkNone]

framing_push_Payload(self, input) ==
    LET payload == Append(self.payload, input)
        cksum   == framing_Checksum_push(self.cksum, input)
    IN  IF Len(payload) = self.len
        THEN [self |-> [state |-> "CkA", class |-> self.class, id |-> self.id,
                        payload |-> payload,
                        cksum_calc |-> framing_Checksum_take(cksum).ret],
              ret  |-> OkNone]
        ELSE [self |-> [self EXCEPT !.payload = payload, !.cksum = cksum],
              ret  |-> OkNone]

framing_push_CkA(self, input) ==
    IF input = self.cksum_calc[1]
    THEN [self |-> [state |-> "CkB", class |-> self.class, id |-> self.id,
                    payload |-> self.payload,
                    cksum_calc |-> self.cksum_calc],
          ret  |-> OkNone]
    ELSE [self |-> framing_Deframer_new, ret |-> ErrChecksum]

framing_push_CkB(self, input) ==
    LET ret == IF input = self.cksum_calc[2]
               THEN OkSome(framing_Frame(self.class, self.id, self.payload))
               ELSE ErrChecksum
    IN  [self |-> framing_Deframer_new, ret |-> ret]

framing_Deframer_push(self, input) ==
    CASE self.state = "Sync"      -> framing_push_Sync(self, input)
      [] self.state = "Class"     -> framing_push_Class(self, input)
      [] self.state = "Id"        -> framing_push_Id(self, input)
      [] self.state = "LengthLsb" -> framing_push_LengthLsb(self, input)
      [] self.state = "LengthMsb" -> framing_push_LengthMsb(self, input)
      [] self.state = "Payload"   -> framing_push_Payload(self, input)
      [] self.state = "CkA"       -> framing_push_CkA(self, input)
      [] self.state = "CkB"       -> framing_push_CkB(self, input)

InitVersions ==
    /\ stream \in Streams
    /\ pos = 0
    /\ d = Deframer_new
    /\ prev = Deframer_new
    /\ outs = <<>>
    /\ away = 0
    /\ call = NoCall
    /\ result = NoResult
    /\ ChecksumIdle
    /\ insts = NoInsts
    /\ console = <<>>
    /\ scratch = NoScratch
    /\ framing = [deframer |-> framing_Deframer_new, outs |-> <<>>, above |-> FALSE]

\* the next byte of the stream is pushed on both Deframers; above records
\* that a header has declared a length over the ceiling of deframer.rs
PushBoth ==
    /\ pos < Len(stream)
    /\ LET r == Deframer_push(d, stream[pos + 1])
           f == framing_Deframer_push(framing.deframer, stream[pos + 1])
       IN  /\ d' = r.self
           /\ outs' = Append(outs, r.ret)
           /\ framing' = [deframer |-> f.self,
                          outs     |-> Append(framing.outs, f.ret),
                          above    |-> \/ framing.above
                                       \/ /\ f.self.state = "Payload"
                                          /\ f.self.len > MAX_LEN]
    /\ prev' = d
    /\ pos' = pos + 1
    /\ UNCHANGED <<stream, away, call, result, kvars, insts, console, scratch>>

NextVersions == PushBoth

SpecVersions == InitVersions /\ [][NextVersions]_vars

----------------------------------------------------------------------------
(* The state machine of the I2C loop                                       *)

\* the values of the bytes-available register that are taken for a glitch
\* and asked for again
I2C_GLITCHES == {32768, 128}

\* (a Deframer is made for every read)
i2c_deframer_per_read(deframer) == Deframer_new

\* the Deframer the loop pushes on: the one made before the loop
i2c_deframer(deframer) == deframer

\* `usize::min(n_avail, scratch.len())`, scratch being [0x00_u8; 128]
i2c_read_len(n_avail) == IF n_avail < I2C_SCRATCH THEN n_avail ELSE I2C_SCRATCH

\* the match on what push returned, as in the file loop
i2c_loop_match(res) == file_loop_match(res)

\* `for &mut b in read_buf { match deframer.push(b) { .. } }`: the pushes
\* of bytes[lo..hi] in order, the values returned and the lines printed;
\* the range is halved to keep the evaluation shallow
RECURSIVE i2c_push_all(_, _, _, _)
i2c_push_all(deframer, bytes, lo, hi) ==
    IF lo > hi THEN [self |-> deframer, outs |-> <<>>, console |-> <<>>]
    ELSE IF lo = hi
    THEN LET r == Deframer_push(deframer, bytes[lo])
         IN  [self |-> r.self, outs |-> <<r.ret>>, console |-> i2c_loop_match(r.ret)]
    ELSE LET mid  == (lo + hi) \div 2
             left == i2c_push_all(deframer, bytes, lo, mid)
         IN  \* the test makes the first half's pushes happen first
             IF Len(left.outs) = mid - lo + 1
             THEN LET right == i2c_push_all(left.self, bytes, mid + 1, hi)
                  IN  [self    |-> right.self,
                       outs    |-> left.outs \o right.outs,
                       console |-> left.console \o right.console]
             ELSE left

\* what the receiver sends over a session
LongPayload == 2 * I2C_SCRATCH
I2cStreams ==
    { TEST_VECTOR \o TEST_VECTOR,
      Corrupt(TEST_VECTOR, 0, 0) \o into_framed_vec(ACK_OF_PRT),
      <<0, SYNC1>> \o into_framed_vec(ACK_OF_PRT) \o TEST_VECTOR,
      into_framed_vec(Frame(ACK_CLASS, ACK_ID, Ramp(LongPayload))) \o TEST_VECTOR }

\* what the bytes-available register may say when rem bytes are waiting
Avail(rem) ==
    (((1 .. MaxCut) \cup {FRAME_OVERHEAD, I2C_SCRATCH - 1, I2C_SCRATCH + 1, rem})
        \cap (1 .. rem)) \ I2C_GLITCHES

InitI2c ==
    /\ stream \in I2cStreams
    /\ pos = 0
    /\ d = Deframer_new
    /\ prev = Deframer_new
    /\ outs = <<>>
    /\ away = 0
    /\ call = NoCall
    /\ result = NoResult
    /\ ChecksumIdle
    /\ insts = NoInsts
    /\ console = <<>>
    /\ scratch = NoScratch
    /\ framing = NoFraming

\* one turn of the loop: the register says n_avail bytes are waiting, the
\* loop reads min(n_avail, 128) of them into scratch and pushes each
I2cTransfer ==
    /\ pos < Len(stream)
    /\ \E n_avail \in Avail(Len(stream) - pos) :
          LET read_len == i2c_read_len(n_avail)
              read_buf == SubSeq(stream, pos + 1, pos + read_len)
              r        == i2c_push_all(i2c_deframer(d), read_buf, 1, read_len)
          IN  /\ scratch' = [read_buf |-> read_buf, read_len |-> read_len]
              /\ d' = r.self
              /\ outs' = outs \o r.outs
              /\ console' = console \o r.console
              /\ pos' = pos + read_len
    /\ prev' = d
    /\ UNCHANGED <<stream, away, call, result, kvars, insts, framing>>

NextI2c == I2cTransfer

SpecI2c == InitI2c /\ [][NextI2c]_vars

----------------------------------------------------------------------------
(* Vocabulary of the properties                                            *)

\* the bytes pushed so far
pushed == SubSeq(stream, 1, pos)

\* the value returned by the last push
ret == outs[pos]

\* every push before the last returned Ok(None)
QuietBefore(n) == \A i \in 1 .. n - 1 : outs[i] = OkNone

\* the class, id and payload a wire message carries, read off by offset
ParseWire(bytes) ==
    Frame(bytes[3], bytes[4], SubSeq(bytes, 7, Len(bytes) - 2))

\* bytes is a complete valid wire message: the encoding of what it carries
IsWire(bytes) ==
    /\ Len(bytes) >= FRAME_OVERHEAD
    /\ bytes = into_framed_vec(ParseWire(bytes))

\* a wire message whose payload is within the ceiling of 999 bytes
BelowCeiling(bytes) == Len(bytes) - FRAME_OVERHEAD <= MAX_LEN

\* the length the two length bytes of a header declare
Declared(lsb, msb) == lsb + (256 * msb)

\* a valid wire message with its final checksum byte replaced
IsWireBadCkB(bytes) ==
    /\ Len(bytes) >= FRAME_OVERHEAD
    /\ LET good == into_framed_vec(ParseWire(bytes))
       IN  /\ Len(good) = Len(bytes)
           /\ SubSeq(good, 1, Len(good) - 1) = SubSeq(bytes, 1, Len(bytes) - 1)
           /\ good[Len(good)] # bytes[Len(bytes)]

----------------------------------------------------------------------------
(* Round trips                                                             *)

\* C1: decode(encode(x)) = x.  When the bytes pushed into the fresh
\* Deframer are exactly into_framed_vec of a frame whose payload has 0 to
\* 999 bytes, every push but the last returned Ok(None) and the last
\* returned that frame.
C1_DecodeEncode ==
    (IsWire(pushed) /\ BelowCeiling(pushed))
        => (QuietBefore(pos) /\ ret = OkSome(ParseWire(pushed)))

\* the stream begins with the sync word and the Deframer returned a Frame
\* on the last byte pushed, after Ok(None) on every byte before it
FrameOnLastByte ==
    /\ pos >= 2
    /\ pushed[1] = SYNC1 /\ pushed[2] = SYNC2
    /\ ret.kind = "Frame"
    /\ QuietBefore(pos)

\* C2 as stated: encode(decode(bytes)) = bytes for every sequence that
\* starts with the sync word and yields a Frame on its last byte, with no
\* output before it.
C2_EncodeDecode ==
    FrameOnLastByte => into_framed_vec(ret.frame) = pushed

\* C2 as amended: the same, for the sequences whose first header declares
\* a length of at most 999 (a header above the ceiling is dropped in
\* silence, and the Frame found after it encodes to the bytes after it).
C2_EncodeDecodeBelowCeiling ==
    (FrameOnLastByte /\ Declared(pushed[5], pushed[6]) <= MAX_LEN)
        => into_framed_vec(ret.frame) = pushed

C2_Witness ==
    /\ FrameOnLastByte
    /\ Declared(pushed[5], pushed[6]) <= MAX_LEN
    /\ Len(ret.frame.message) = 2

\* C3: byte-at-a-time equivalence.  A complete valid wire message pushed
\* byte by byte gives Ok(None) on every push but the last and a Frame on
\* the last, and that Frame is what deframe() returns for the same bytes.
C3_ByteAtATime ==
    (IsWire(pushed) /\ BelowCeiling(pushed))
        => /\ QuietBefore(pos)
           /\ ret.kind = "Frame"
           /\ ret = deframe(pushed)

----------------------------------------------------------------------------
(* Checksum verification                                                   *)

\* the checksum over class, id, length LSB, length MSB and payload
FrameChecksum(frame) ==
    LET n == Len(frame.message)
    IN  push_all(Checksum_default,
                 <<frame.class, frame.id, n % 256, n \div 256>> \o frame.message,
                 0)

\* C4: a Frame is returned only for a checksum-valid message: the two
\* bytes pushed last are the checksum over class, id, the two length bytes
\* and the payload of the Frame returned.
C4_FrameOnlyIfChecksumValid ==
    (pos > 0 /\ ret.kind = "Frame")
        => /\ pos >= 2
           /\ <<pushed[pos - 1], pushed[pos]>> = FrameChecksum(ret.frame)

C4_Witness ==
    /\ pos > 0
    /\ ret.kind = "Frame"
    /\ ret.frame.message = <<SYNC1, SYNC2>>

\* where the first message of the stream ends, by its header
FirstEnd == FRAME_OVERHEAD + Declared(pushed[5], pushed[6])

\* C5: checksum rejection.  For a valid message (of at most 999 payload
\* bytes) with its final checksum byte replaced, every push before the last
\* returns Ok(None) and the last returns Err(Checksum); a valid message
\* pushed right after it yields its Frame on its final byte.
C5_ChecksumRejection ==
    /\ (IsWireBadCkB(pushed) /\ BelowCeiling(pushed))
         => (QuietBefore(pos) /\ ret = ErrChecksum)
    /\ (/\ pos >= FRAME_OVERHEAD
        /\ FirstEnd < pos
        /\ IsWireBadCkB(SubSeq(pushed, 1, FirstEnd))
        /\ BelowCeiling(SubSeq(pushed, 1, FirstEnd))
        /\ IsWire(SubSeq(pushed, FirstEnd + 1, pos))
        /\ BelowCeiling(SubSeq(pushed, FirstEnd + 1, pos)))
         => /\ ret = OkSome(ParseWire(SubSeq(pushed, FirstEnd + 1, pos)))
            /\ \A i \in FirstEnd + 1 .. pos - 1 : outs[i] = OkNone

\* C6: resync after noise.  A run of bytes without the sync word followed
\* by a valid message (of at most 999 payload bytes): Ok(None) for every
\* noise byte and exactly one Frame, on the final byte of the message.
C6_ResyncAfterNoise ==
    \A k \in 0 .. pos - FRAME_OVERHEAD :
        (/\ pushed[k + 1] = SYNC1
         /\ ~HasSync(SubSeq(pushed, 1, k))
         /\ IsWire(SubSeq(pushed, k + 1, pos))
         /\ BelowCeiling(SubSeq(pushed, k + 1, pos)))
            => /\ QuietBefore(pos)
               /\ ret = OkSome(ParseWire(SubSeq(pushed, k + 1, pos)))

----------------------------------------------------------------------------
(* Resynchronisation and the length ceiling                                *)

\* the longest walk outside Sync: 4 header bytes + 999 payload bytes + 2
\* checksum bytes, counted from the Class state on
MaxAway == 4 + MAX_LEN + 2

\* C7: no lock-up.  The Deframer is back in Sync within 4 + 999 + 2
\* pushes of any state it reaches, so no run of pushes that all leave it
\* outside Sync is longer than that.
C7_NoLockUp == away <= MaxAway

\* C8: bounded buffering.  The message buffer never holds more than the
\* declared length of the current message, and never more than 999 bytes.
C8_BoundedBuffering ==
    (d.state \in {"Message", "CkA", "CkB"})
        => /\ Len(d.message) <= MAX_LEN
           /\ d.state = "Message" => Len(d.message) <= d.len

\* the last push was a LengthMsb push that declared a length above 999
OverLengthPush ==
    /\ prev.state = "LengthMsb"
    /\ Declared(prev.len_b0, pushed[pos]) > MAX_LEN

\* C9: unconditional resynchronisation.  Right after a push that returned
\* a Frame or Err(Checksum), and right after a LengthMsb push that declared
\* a length above the ceiling, the Deframer is what Deframer::new() yields:
\* Sync with accum = 0 and processed = 0.
C9_ResetAfterTerminal ==
    (pos > 0 /\ (ret.kind \in {"Frame", "Checksum"} \/ OverLengthPush))
        => /\ d = Deframer_new
           /\ d.state = "Sync" /\ d.accum = 0 /\ d.processed = 0

C9_Witness ==
    /\ pos > 0
    /\ prev.state = "CkA"
    /\ ret = ErrChecksum

\* C10: length ceiling.  A LengthMsb push that declares more than 999
\* returns Ok(None) and leaves the Deframer in Sync; one that declares 999
\* or less leaves it in Message with that length.
C10_LengthCeiling ==
    (prev.state = "LengthMsb")
        => LET len == Declared(prev.len_b0, pushed[pos])
           IN  /\ len > MAX_LEN  => (ret = OkNone /\ d.state = "Sync")
               /\ len <= MAX_LEN => (d.state = "Message" /\ d.len = len
                                     /\ ret = OkNone)

C10_Witness ==
    /\ prev.state = "LengthMsb"
    /\ Declared(prev.len_b0, pushed[pos]) = MAX_LEN + 1
    /\ d.state = "Sync"

----------------------------------------------------------------------------
(* Back-to-back frames and the concrete vector                             *)

\* the last index of the wire message whose sync word starts at index i
MsgEnd(bytes, i) == i + (FRAME_OVERHEAD - 1) + Declared(bytes[i + 4], bytes[i + 5])

\* bytes[i..] is a concatenation of valid wire messages, each of at most
\* 999 payload bytes
RECURSIVE IsWireSeq(_, _)
IsWireSeq(bytes, i) ==
    IF i > Len(bytes) THEN TRUE
    ELSE /\ i + (FRAME_OVERHEAD - 1) <= Len(bytes)
         /\ bytes[i] = SYNC1
         /\ MsgEnd(bytes, i) <= Len(bytes)
         /\ IsWire(SubSeq(bytes, i, MsgEnd(bytes, i)))
         /\ BelowCeiling(SubSeq(bytes, i, MsgEnd(bytes, i)))
         /\ IsWireSeq(bytes, MsgEnd(bytes, i) + 1)

\* what the pushes of such a concatenation are to return: for each
\* message, Ok(None) up to its final byte and its Frame on the final byte
RECURSIVE WireSeqOuts(_, _)
WireSeqOuts(bytes, i) ==
    IF i > Len(bytes) THEN <<>>
    ELSE LET e == MsgEnd(bytes, i)
         IN  [j \in 1 .. e - i |-> OkNone]
               \o <<OkSome(ParseWire(SubSeq(bytes, i, e)))>>
               \o WireSeqOuts(bytes, e + 1)

\* C11: back-to-back frames.  When the bytes pushed are k valid wire
\* messages one after the other, the pushes returned exactly k Frames, in
\* order, each on the final byte of its message and equal to it, and no
\* error (stated for k >= 2).
C11_BackToBack ==
    (pos >= 2 * FRAME_OVERHEAD /\ MsgEnd(pushed, 1) < pos /\ IsWireSeq(pushed, 1))
        => outs = WireSeqOuts(pushed, 1)

\* C12: the concrete vector B5 62 05 01 01 00 06 0D 26 gives Ok(None) for
\* its first eight bytes and, on the ninth, the Frame with class 0x05,
\* id 0x01 and message [0x06].
C12_ConcreteVector ==
    (pos <= Len(TEST_VECTOR) /\ pushed = SubSeq(TEST_VECTOR, 1, pos))
        => /\ \A i \in 1 .. pos : i < Len(TEST_VECTOR) => outs[i] = OkNone
           /\ pos = Len(TEST_VECTOR) => ret = OkSome(Frame(5, 1, <<6>>))

C12_Witness ==
    /\ pushed = TEST_VECTOR
    /\ ret.kind = "Frame"

----------------------------------------------------------------------------
(* The typed encoder frame()                                               *)

\* what a fresh Deframer returns for each byte of bytes, pushed in order
RECURSIVE outcomes_from(_, _, _)
outcomes_from(self, bytes, i) ==
    IF i > Len(bytes)
    THEN <<>>
    ELSE LET r == Deframer_push(self, bytes[i])
         IN  <<r.ret>> \o outcomes_from(r.self, bytes, i + 1)
Outcomes(bytes) == outcomes_from(Deframer_new, bytes, 1)

\* a call of frame() that has returned Ok, and the bytes it wrote
Framed  == call.op = "frame" /\ result.done /\ result.ret.ret.ok
Written == SubSeq(result.ret.buf, 1, result.ret.ret.val)

\* C13: the Prt::LEN + 8 bytes written by frame(m, buf), whatever buf held
\* before, pushed into a fresh Deframer give Ok(None) up to the last byte
\* and on it the Frame with Prt's class and id and m's encoded bytes.
C13_TypedEncoderDeframes ==
    Framed =>
        Outcomes(Written) =
            [i \in 1 .. Prt.LEN + FRAME_OVERHEAD |->
                IF i < Prt.LEN + FRAME_OVERHEAD
                THEN OkNone
                ELSE OkSome(Frame(Prt.CLASS, Prt.ID, Prt_bytes(call.msg)))]

\* a call of frame() that has returned
FrameReturned == call.op = "frame" /\ result.done

\* C14: frame(msg, buf) returns Err(()) when buf has fewer than
\* Prt::LEN + 8 bytes; otherwise it returns Ok(Prt::LEN + 8), the number of
\* bytes it wrote: header and message at the front of buf, nothing changed
\* beyond the count returned.
C14_FrameCapacity ==
    FrameReturned =>
        IF Len(call.buf) < Prt.LEN + 8
        THEN result.ret.ret = Err
        ELSE /\ result.ret.ret = Ok(Prt.LEN + 8)
             /\ SubSeq(result.ret.buf, 1, Prt.LEN + 6)
                    = <<SYNC1, SYNC2, Prt.CLASS, Prt.ID, Prt.LEN, 0>> \o Prt_bytes(call.msg)
             /\ Len(result.ret.buf) = Len(call.buf)
             /\ Rest(result.ret.buf, Prt.LEN + 8) = Rest(call.buf, Prt.LEN + 8)

\* frame() has turned down a buffer one byte short
C14_Witness ==
    /\ FrameReturned
    /\ Len(call.buf) = Prt.LEN + 8 - 1
    /\ ~result.ret.ret.ok

\* frame() has filled a buffer of exactly the size needed
C14_WitnessExact ==
    /\ FrameReturned
    /\ Len(call.buf) = Prt.LEN + 8
    /\ result.ret.ret.ok

----------------------------------------------------------------------------
(* The envelope encoder Frame::into_framed_vec                             *)

\* sum of bytes[lo .. hi] mod 256, and the sum of the same bytes mod 256
\* with bytes[j] counted hi - j + 1 times
RECURSIVE SumA(_, _, _)
SumA(bytes, lo, hi) ==
    IF lo > hi THEN 0
    ELSE IF lo = hi THEN bytes[lo] % 256
    ELSE LET mid == (lo + hi) \div 2
         IN  (SumA(bytes, lo, mid) + SumA(bytes, mid + 1, hi)) % 256

RECURSIVE SumB(_, _, _, _)
SumB(bytes, lo, hi, last) ==
    IF lo > hi THEN 0
    ELSE IF lo = hi THEN (((last - lo + 1) % 256) * bytes[lo]) % 256
    ELSE LET mid == (lo + hi) \div 2
         IN  (SumB(bytes, lo, mid, last) + SumB(bytes, mid + 1, hi, last)) % 256

\* a call of into_framed_vec that has returned
Encoded == call.op = "into_framed_vec" /\ result.done

\* C15: for a Frame with a payload of n <= 65535 bytes, into_framed_vec
\* returns n + 8 bytes: 0xB5, 0x62, class, id, n mod 256, n div 256, the
\* payload in order, then the two checksum bytes, which are the plain and
\* the position-weighted sum mod 256 of bytes 2 .. n + 5 (counted from 0).
C15_WireLayout ==
    (Encoded /\ Len(call.frame.message) <= 65535) =>
        LET n   == Len(call.frame.message)
            out == result.ret
        IN  /\ Len(out) = n + 8
            /\ SubSeq(out, 1, 6)
                  = <<181, 98, call.frame.class, call.frame.id, n % 256, n \div 256>>
            /\ SubSeq(out, 7, n + 6) = call.frame.message
            /\ out[n + 7] = SumA(out, 3, n + 6)
            /\ out[n + 8] = SumB(out, 3, n + 6, n + 6)

\* a payload whose length needs both length bytes has been encoded
C15_Witness ==
    /\ Encoded
    /\ Len(call.frame.message) = 257
    /\ result.ret[5] = 1
    /\ result.ret[6] = 1

----------------------------------------------------------------------------
(* The dispatcher Msg::from_frame                                          *)

\* a call of Msg::from_frame that has returned
Dispatched == call.op = "from_frame" /\ result.done

\* the types the three from_frame functions have a match arm for
Registered == {Ack, Nak, SetMsgRates, TimeGps, Pvt}

\* C16: for a Frame whose class and id are those of a registered type but
\* whose message is shorter or longer than that type's LEN, Msg::from_frame
\* returns Err(()).
C16_ExactLengthDispatch ==
    Dispatched =>
        \A M \in Registered :
            ( /\ call.frame.class = M.CLASS
              /\ call.frame.id = M.ID
              /\ Len(call.frame.message) # M.LEN ) => result.ret = Err

\* an ACK-ACK frame with one byte more than Ack::LEN has been turned down
C16_Witness ==
    /\ Dispatched
    /\ call.frame.class = 5
    /\ call.frame.id = 1
    /\ Len(call.frame.message) = 3
    /\ result.ret = Err

\* the top-level variant a class belongs to
Category(class) ==
    CASE class = 5 -> "AckNak"
      [] class = 6 -> "Cfg"
      [] class = 1 -> "Nav"

\* the value a type's decode gives for its LEN message bytes
DecodeOf(M, m) ==
    CASE M = Ack         -> [class |-> m[1], id |-> m[2]]
      [] M = Nak         -> [class |-> m[1], id |-> m[2]]
      [] M = SetMsgRates -> [class |-> m[1], id |-> m[2], ddc |-> m[3],
                             uart1 |-> m[4], usb |-> m[5], spi |-> m[6]]
      [] M = TimeGps     -> [TimeGps |-> m]
      [] M = Pvt         -> [Pvt |-> m]

C18_ClassRejection ==
    (Dispatched /\ call.frame.class \notin {1, 5, 6}) => result.ret = Err

\* a frame of class 0x07 with the id and length of NAV-PVT has been turned down
C18_Witness ==
    /\ Dispatched
    /\ call.frame.class = 7
    /\ call.frame.id = 7
    /\ Len(call.frame.message) = 92
    /\ result.ret = Err

\* the frame has the class, the id and the message length of type M
ExactFrameOf(M) ==
    /\ call.frame.class = M.CLASS
    /\ call.frame.id = M.ID
    /\ Len(call.frame.message) = M.LEN

DecoderOf(M, m) ==
    CASE M = Ack         -> Ack_deserialize(m)
      [] M = Nak         -> Nak_deserialize(m)
      [] M = SetMsgRates -> SetMsgRates_parse(m)
      [] M = TimeGps     -> TimeGps_parse(m)
      [] M = Pvt         -> Pvt_parse(m)

----------------------------------------------------------------------------
(* The running checksum                                                    *)

\* C20: push(x) on a Checksum (a, b) leaves ((a + x) mod 256,
\* (b + (a + x) mod 256) mod 256), both still bytes, and returns x; so after
\* pushes of x1 .. xn onto a fresh Checksum the state, which take() then
\* returns, is (sum of xi mod 256, sum of (n - i + 1) * xi mod 256).
C20_ChecksumPush ==
    /\ checksum \in Byte \X Byte
    /\ checksum_ret.op = "push" =>
            /\ checksum[1] = (checksum_was[1] + checksum_ret.arg) % 256
            /\ checksum[2] = (checksum_was[2] + checksum[1]) % 256
            /\ checksum_ret.val = checksum_ret.arg
    /\ checksum = <<SumA(checksum_in, 1, Len(checksum_in)),
                SumB(checksum_in, 1, Len(checksum_in), Len(checksum_in))>>
    /\ checksum_ret.op = "take" =>
            checksum_ret.val = <<SumA(checksum_ret.of, 1, Len(checksum_ret.of)),
                            SumB(checksum_ret.of, 1, Len(checksum_ret.of), Len(checksum_ret.of))>>

\* both sums have passed 255 and wrapped, and take() has returned them
C20_Witness ==
    /\ checksum_ret.op = "take"
    /\ checksum_ret.of = <<255, 255, 128>>
    /\ checksum_ret.val = <<126, 123>>

\* C21: take() returns the pair the Checksum held and leaves (0, 0); a
\* take() right after a take() returns (0, 0); and the pair after pushes
\* that follow a take() is the pair a fresh Checksum has after the same
\* pushes.
C21_ChecksumTake ==
    /\ checksum_ret.op = "take" =>
            /\ checksum_ret.val = checksum_was
            /\ checksum = <<0, 0>>
            /\ checksum_ret.after = "take" => checksum_ret.val = <<0, 0>>
    /\ checksum = push_all(Checksum_default, checksum_in, 0)

\* a take() has followed a take() and returned (0, 0)
C21_Witness ==
    /\ checksum_ret.op = "take"
    /\ checksum_ret.after = "take"
    /\ checksum_ret.val = <<0, 0>>

\* a push has followed a take() and left what it leaves on a fresh Checksum
C21_WitnessPush ==
    /\ checksum_ret.op = "push"
    /\ checksum_ret.after = "take"
    /\ checksum = Checksum_with(255)

----------------------------------------------------------------------------
(* The outcome of each push                                                *)

\* C22: every push returns Ok(None), Err(Checksum) or Ok(Some(frame)) and
\* nothing else; a Frame comes only from a push made in CkB, an error only
\* from a push made in CkA or CkB, and a push made in Sync, Class, Id,
\* LengthLsb, LengthMsb or Message returns Ok(None).
C22_OutcomePerByte ==
    pos >= 1 =>
        /\ Len(outs) = pos
        /\ \/ ret = OkNone
           \/ ret = ErrChecksum
           \/ /\ ret.kind = "Frame"
              /\ ret = OkSome(Frame(ret.frame.class, ret.frame.id, ret.frame.message))
        /\ ret.kind = "Frame" => prev.state = "CkB"
        /\ ret.kind = "Checksum" => prev.state \in {"CkA", "CkB"}
        /\ prev.state \in {"Sync", "Class", "Id", "LengthLsb", "LengthMsb", "Message"}
                => ret = OkNone

\* a push made in LengthMsb with a length above the ceiling has returned
\* Ok(None)
C22_Witness ==
    /\ pos >= 1
    /\ prev.state = "LengthMsb"
    /\ Declared(prev.len_b0, stream[pos]) > 999
    /\ ret = OkNone

\* C23: a byte pushed while the Deframer is in Sync returns Ok(None), and
\* the Deframer stays in Sync unless that byte is 0x62 and the byte pushed
\* before it is 0xB5, in which case it may go to Class and nowhere else.
C23_SyncNeverFails ==
    (pos >= 1 /\ prev.state = "Sync") =>
        /\ ret = OkNone
        /\ d.state \in {"Sync", "Class"}
        /\ d.state = "Class" =>
                /\ pos >= 2
                /\ stream[pos - 1] = 181
                /\ stream[pos] = 98

\* sixteen bytes in a row have been absorbed in Sync
C23_Witness ==
    /\ pos >= 16
    /\ prev.state = "Sync"
    /\ d.state = "Sync"
    /\ d.processed = pos
    /\ \A i \in 1 .. pos : outs[i] = OkNone

\* C24: when a push returns a Frame with a message of n bytes, the n + 8
\* bytes pushed last are the sync word, the Frame's class, its id, two
\* length bytes with LSB + 256 * MSB = n, the Frame's message in arrival
\* order, and two more bytes.
C24_EnvelopeContent ==
    (pos >= 1 /\ ret.kind = "Frame") =>
        LET n == Len(ret.frame.message)
            s == pos - n - 7
        IN  /\ s >= 1
            /\ stream[s] = 181
            /\ stream[s + 1] = 98
            /\ ret.frame.class = stream[s + 2]
            /\ ret.frame.id = stream[s + 3]
            /\ n = stream[s + 4] + (256 * stream[s + 5])
            /\ ret.frame.message = SubSeq(stream, s + 6, s + 5 + n)

\* a Frame whose length needs both length bytes has been returned
C24_Witness ==
    /\ pos >= 1
    /\ ret.kind = "Frame"
    /\ Len(ret.frame.message) = 999
    /\ stream[5] = 231
    /\ stream[6] = 3

----------------------------------------------------------------------------
(* Two Deframers                                                           *)

\* the Deframers a fresh Deframer passes through as bytes are pushed
RECURSIVE states_from(_, _, _)
states_from(self, bytes, i) ==
    IF i > Len(bytes)
    THEN <<>>
    ELSE LET r == Deframer_push(self, bytes[i])
         IN  <<r.self>> \o states_from(r.self, bytes, i + 1)
StatesAlone(bytes) == states_from(Deframer_new, bytes, 1)

\* what instance i has been fed so far
Fed(i) == SubSeq(insts[i].stream, 1, insts[i].pos)

LastByte(i) == insts[i].stream[insts[i].pos]
LastOut(i)  == insts[i].outs[insts[i].pos]

----------------------------------------------------------------------------
(* Message codecs                                                          *)

\* C27: for each of Ack, Nak, SetMsgRates, TimeGps and Pvt, serialize of a
\* value into a buffer with at least LEN bytes of room succeeds and writes
\* exactly LEN bytes, and deserialize of those bytes succeeds, consumes all
\* of them and returns the value that was serialized.
C27_CodecRoundTrip ==
    (call.op = "codec" /\ result.done /\ remaining_mut(call.dst) >= call.type.LEN) =>
        /\ result.ret.ser.ok
        /\ Len(result.ret.written) = call.type.LEN
        /\ remaining_mut(result.ret.ser.dst) = remaining_mut(call.dst) - call.type.LEN
        /\ SubSeq(result.ret.ser.dst.buf, 1, Len(call.dst.buf)) = call.dst.buf
        /\ result.ret.de.ok
        /\ result.ret.de.val = call.msg
        /\ result.ret.de.src = <<>>

\* a TimeGps with negative fields went through both, into a buffer that
\* held a byte already and had exactly LEN bytes of room
C27_Witness ==
    /\ call.op = "codec"
    /\ result.done
    /\ call.type = TimeGps
    /\ call.msg.week < 0
    /\ call.msg.fTOW < 0
    /\ call.dst.buf # <<>>
    /\ remaining_mut(call.dst) = TimeGps.LEN
    /\ result.ret.de.ok
    /\ result.ret.de.val.week = call.msg.week

----------------------------------------------------------------------------
(* The payload and the two checksum bytes                                  *)

\* C28: for every declared length len of 0..999, after the length MSB the
\* Deframer takes exactly the next len bytes as payload whatever their
\* values, finalizes the checksum after the last of them, and compares the
\* byte after them against checksum byte A.
C28_PayloadConsumption ==
    /\ (pos >= 1 /\ prev.state = "LengthMsb" /\ d.state = "Message") =>
            /\ d.len = Declared(stream[pos - 1], stream[pos])
            /\ d.message = <<>>
    /\ (pos >= 1 /\ prev.state = "Message") =>
            \* the byte is one of the len bytes of the payload
            /\ Len(prev.message) < prev.len
            /\ ret = OkNone
            /\ d.class = prev.class
            /\ d.id = prev.id
            /\ d.message = Append(prev.message, stream[pos])
            /\ d.message = SubSeq(stream, pos - Len(prev.message), pos)
            /\ IF Len(d.message) < prev.len
               THEN d.state = "Message" /\ d.len = prev.len
               ELSE /\ d.state = "CkA"
                    /\ d.cksum_calc =
                         push_all(Checksum_default,
                                  SubSeq(stream, pos - prev.len - 3, pos), 0)
    /\ (pos >= 1 /\ prev.state = "CkA") =>
            LET n == Len(prev.message)
            IN  /\ n = Declared(stream[pos - n - 2], stream[pos - n - 1])
                /\ prev.message = SubSeq(stream, pos - n, pos - 1)
                /\ (stream[pos] = prev.cksum_calc[1]) <=> (d.state = "CkB")
                /\ (stream[pos] # prev.cksum_calc[1]) <=> (ret = ErrChecksum)

\* the same, where the declared length is not 0
C28_PayloadConsumptionNonEmpty ==
    (pos >= 1 /\ prev.state = "Message" /\ prev.len = 0) \/ C28_PayloadConsumption

\* a valid wire message with its checksum byte A replaced
IsWireBadCkA(bytes) ==
    /\ Len(bytes) >= FRAME_OVERHEAD
    /\ LET good == into_framed_vec(ParseWire(bytes))
       IN  /\ Len(good) = Len(bytes)
           /\ \A i \in 1 .. Len(good) : (i # Len(good) - 1) => good[i] = bytes[i]
           /\ good[Len(good) - 1] # bytes[Len(bytes) - 1]

\* the push in CkA: a byte that differs from checksum byte A is answered
\* with Err(Checksum) and a Deframer that takes whatever byte comes next as
\* a Sync byte; a byte that matches leads to CkB with class, id, message
\* and checksum pair kept
CkAStep ==
    /\ (pos >= 1 /\ prev.state = "CkA") =>
            IF stream[pos] # prev.cksum_calc[1]
            THEN /\ ret = ErrChecksum
                 /\ d = Deframer_new
                 /\ \A b \in Byte :
                        /\ Deframer_push(d, b) = push_Sync(Deframer_new, b)
                        /\ Deframer_push(d, b).ret = OkNone
                        /\ Deframer_push(d, b).self.state = "Sync"
            ELSE /\ ret = OkNone
                 /\ d.state = "CkB"
                 /\ d.class = prev.class
                 /\ d.id = prev.id
                 /\ d.message = prev.message
                 /\ d.cksum_calc = prev.cksum_calc
    /\ (pos >= 2 /\ outs[pos - 1] = ErrChecksum) =>
            /\ prev = Deframer_new
            /\ ret = OkNone
            /\ d.state = "Sync"

\* a message with checksum byte A corrupted: Err(Checksum) on that byte and
\* Ok(None) on every other byte of it, checksum byte B included
OneErrorPerCorruptedFrame ==
    (/\ pos >= FRAME_OVERHEAD
     /\ pos >= FirstEnd
     /\ IsWireBadCkA(SubSeq(pushed, 1, FirstEnd))
     /\ BelowCeiling(SubSeq(pushed, 1, FirstEnd)))
        => \A i \in 1 .. FirstEnd :
              outs[i] = IF i = FirstEnd - 1 THEN ErrChecksum ELSE OkNone

\* C29: early rejection at CkA.  A byte pushed in CkA that differs from
\* the first finalized checksum byte is answered with Err(Checksum) and a
\* reset to Sync, the following byte is processed as a Sync byte and not as
\* checksum byte B, so a corrupted frame produces exactly one checksum
\* error; a byte that matches leads to CkB with the class, id, message and
\* checksum pair of CkA.
C29_EarlyRejection == CkAStep /\ OneErrorPerCorruptedFrame

\* the same, where the corrupted message declares a length that is not 0
C29_EarlyRejectionNonEmpty ==
    CkAStep /\ ((pos >= FRAME_OVERHEAD /\ FirstEnd > FRAME_OVERHEAD) => OneErrorPerCorruptedFrame)

\* the bytes of a message from its class to the end of its payload
MessageBytes(class, id, message) ==
    <<class, id, Len(message) % 256, Len(message) \div 256>> \o message

\* the checksum pair of those bytes alone
ChecksumOf(self) ==
    push_all(Checksum_default, MessageBytes(self.class, self.id, self.message), 0)

\* C30: checksum freshness per message.  The pair a message is verified
\* against, in CkA and in CkB, is the checksum of that message's bytes from
\* class to the end of the payload and of nothing else, whatever was pushed
\* before its sync word: noise, a header abandoned for over-length, a
\* message rejected for a checksum mismatch.
C30_ChecksumFreshness ==
    /\ d.state \in {"CkA", "CkB"} => d.cksum_calc = ChecksumOf(d)
    /\ (pos >= 1 /\ prev.state = "CkA") =>
            /\ prev.cksum_calc = ChecksumOf(prev)
            /\ (ret = ErrChecksum) <=> (stream[pos] # ChecksumOf(prev)[1])
    /\ (pos >= 1 /\ prev.state = "CkB") =>
            /\ prev.cksum_calc = ChecksumOf(prev)
            /\ (ret = ErrChecksum) <=> (stream[pos] # ChecksumOf(prev)[2])
            /\ (ret.kind = "Frame") <=> (stream[pos] = ChecksumOf(prev)[2])

\* a message was verified and returned after a message before it had been
\* rejected for a checksum mismatch
C30_Witness ==
    /\ pos >= 1
    /\ prev.state = "CkB"
    /\ ret.kind = "Frame"
    /\ \E i \in 1 .. pos - 1 : outs[i] = ErrChecksum

----------------------------------------------------------------------------
(* The sync word and the over-length reset                                 *)

\* C31: sync word detection.  A push in Sync leaves Sync for Class exactly
\* when the byte is 0x62 and the byte pushed right before it, since the
\* last reset, is 0xB5; B5 B5 62 synchronizes on the third byte and a 0x62
\* pushed first after a reset does not synchronize.
C31_SyncWordDetection ==
    (pos >= 1 /\ prev.state = "Sync") =>
        ((d.state = "Class") <=>
            (/\ stream[pos] = SYNC2
             /\ prev.processed >= 1
             /\ stream[pos - 1] = SYNC1))

\* B5 B5 62 has been pushed and the third byte synchronized
C31_Witness ==
    /\ pos = 3
    /\ pushed = <<SYNC1, SYNC1, SYNC2>>
    /\ prev.state = "Sync"
    /\ d.state = "Class"

\* a 0x62 pushed first after a reset that a 0xB5 byte caused
C31_WitnessAfterReset ==
    /\ pos >= 2
    /\ prev = Deframer_new
    /\ stream[pos - 1] = SYNC1
    /\ stream[pos] = SYNC2
    /\ d.state = "Sync"

\* the stream starts with a header that declares a length above the ceiling
OverLengthHeader ==
    /\ pos >= 6
    /\ pushed[1] = SYNC1
    /\ pushed[2] = SYNC2
    /\ Declared(pushed[5], pushed[6]) > MAX_LEN

\* after such a header the very next byte is scanned in Sync
ScannedAfterOverLength ==
    /\ (OverLengthHeader /\ pos = 6) => d = Deframer_new
    /\ (OverLengthHeader /\ pos = 7) => prev = Deframer_new

\* a valid message right after such a header is returned on its last byte
FrameAfterOverLength ==
    (/\ OverLengthHeader
     /\ pos >= 6 + FRAME_OVERHEAD
     /\ IsWire(SubSeq(pushed, 7, pos))
     /\ BelowCeiling(SubSeq(pushed, 7, pos)))
        => /\ ret = OkSome(ParseWire(SubSeq(pushed, 7, pos)))
           /\ QuietBefore(pos)

\* C32: no drain after over-length.  After a header declaring a length
\* above 999 is abandoned the Deframer skips nothing: the very next byte is
\* scanned in Sync, and a valid message that starts right after the six
\* header bytes is decoded and returned as a Frame.
C32_NoDrainAfterOverLength == ScannedAfterOverLength /\ FrameAfterOverLength

\* the same, where the message after the header carries a payload
C32_NoDrainNonEmpty ==
    /\ ScannedAfterOverLength
    /\ (pos > 6 + FRAME_OVERHEAD) => FrameAfterOverLength

----------------------------------------------------------------------------
(* frame() against Frame::into_framed_vec, and what frame() leaves alone   *)

\* what Frame::into_framed_vec returns for the message frame() was given
EnvelopeOf(msg) == into_framed_vec(Frame(Prt.CLASS, Prt.ID, Prt_bytes(msg)))

\* C33: the two encoders agree.  For a buffer of at least Prt::LEN + 8
\* bytes, whatever it held, the bytes frame(m, buf) writes equal the bytes
\* Frame::into_framed_vec returns for the Frame with Prt's class and id
\* and m's encoded bytes.
C33_EncodersAgree ==
    (FrameReturned /\ Len(call.buf) >= Prt.LEN + FRAME_OVERHEAD) =>
        /\ result.ret.ret.ok
        /\ Written = EnvelopeOf(call.msg)

\* the two agree on everything but the two checksum bytes
EncodersAgreeBeforeChecksum ==
    (FrameReturned /\ Len(call.buf) >= Prt.LEN + FRAME_OVERHEAD) =>
        /\ result.ret.ret.ok
        /\ Len(Written) = Len(EnvelopeOf(call.msg))
        /\ SubSeq(Written, 1, Prt.LEN + 6) = SubSeq(EnvelopeOf(call.msg), 1, Prt.LEN + 6)

\* C34: frame effect of frame().  On success the bytes of buf at index
\* Prt::LEN + 8 and beyond are what they were; when frame() returns the
\* capacity error no byte of buf has been changed.
C34_FrameEffect ==
    FrameReturned =>
        /\ Len(result.ret.buf) = Len(call.buf)
        /\ result.ret.ret.ok =>
                \A i \in Prt.LEN + FRAME_OVERHEAD + 1 .. Len(call.buf) :
                    result.ret.buf[i] = call.buf[i]
        /\ ~result.ret.ret.ok =>
                /\ Len(call.buf) < Prt.LEN + FRAME_OVERHEAD
                /\ result.ret.buf = call.buf

\* frame() has written into the front of a longer buffer that held
\* non-zero bytes beyond the message
C34_Witness ==
    /\ FrameReturned
    /\ result.ret.ret.ok
    /\ Len(call.buf) > Prt.LEN + FRAME_OVERHEAD
    /\ call.buf[Len(call.buf)] # 0
    /\ result.ret.buf # call.buf

\* frame() has turned down a non-empty buffer that was too short
C34_WitnessError ==
    /\ FrameReturned
    /\ ~result.ret.ret.ok
    /\ Len(call.buf) >= 6

----------------------------------------------------------------------------
(* The byte counter of Sync                                                *)

\* values of the counter: fresh, one before the trace message, on it, large
ProcessedValues == {0, 7, 8, 65535}

\* a Deframer in Sync with another count
WithProcessed(self, p) == [self EXCEPT !.processed = p]

\* two Deframers that differ in the count at most
SameButProcessed(a, b) ==
    /\ a.state = b.state
    /\ IF a.state = "Sync" THEN a.accum = b.accum ELSE a = b

\* the longest rest of a stream the outcomes are compared on
MaxRest == MaxRun + Len(TEST_VECTOR)

\* C35: the byte counter `processed` of Sync influences no outcome and no
\* transition: two Deframers that differ only in it return the same value
\* for every byte, go to states that differ only in it, and return the same
\* outcomes for the rest of the stream.
C35_ProcessedIsInert ==
    d.state = "Sync" =>
        \A p \in ProcessedValues :
            /\ \A b \in Byte :
                    LET r1 == Deframer_push(d, b)
                        r2 == Deframer_push(WithProcessed(d, p), b)
                    IN  /\ r1.ret = r2.ret
                        /\ SameButProcessed(r1.self, r2.self)
            /\ Len(stream) - pos <= MaxRest =>
                    outcomes_from(WithProcessed(d, p), stream, pos + 1)
                        = outcomes_from(d, stream, pos + 1)

\* a Deframer whose count stands on a multiple of 8, with a message still
\* to come that a Deframer with another count returns as a Frame
C35_Witness ==
    /\ d.state = "Sync"
    /\ d.processed = 8
    /\ Len(stream) - pos <= MaxRest
    /\ \E i \in 1 .. Len(stream) - pos :
            outcomes_from(WithProcessed(d, 7), stream, pos + 1)[i].kind = "Frame"

----------------------------------------------------------------------------
(* The one-shot deframe()                                                  *)

\* the pushes so far that returned a Frame
FramePushes == { i \in 1 .. pos : outs[i].kind = "Frame" }

\* the first of them
FirstFramePush == CHOOSE i \in FramePushes : \A j \in FramePushes : i <= j

\* C36: one-shot deframe().  For the bytes pushed so far deframe returns
\* Ok(Some(f)) with f the first Frame that pushing them one by one into a
\* fresh Deframer returns, and Ok(None) when there is none; it never
\* returns an error, so a checksum error earlier in the bytes does not keep
\* a later Frame from being returned.
C36_OneShotDeframe ==
    (pos <= MaxRest \/ pos = Len(stream)) =>
        /\ deframe(pushed).kind # "Checksum"
        /\ deframe(pushed) = IF FramePushes = {} THEN OkNone ELSE outs[FirstFramePush]

\* a checksum error, then a Frame, and deframe() returns that Frame
C36_Witness ==
    /\ pos >= 1
    /\ ret.kind = "Frame"
    /\ \E i \in 1 .. pos - 1 : outs[i] = ErrChecksum
    /\ FirstFramePush = pos
    /\ deframe(pushed) = ret

----------------------------------------------------------------------------
(* Capacity errors of the codecs                                           *)

\* C37: codec capacity errors.  serialize returns Err(()) and writes
\* nothing when the destination has fewer than LEN bytes free; deserialize
\* returns Err(()) and consumes nothing when the source has fewer than LEN
\* bytes, and with LEN or more bytes it consumes exactly LEN of them.
C37_CodecCapacity ==
    /\ (call.op = "codec" /\ result.done /\ remaining_mut(call.dst) < call.type.LEN) =>
            /\ ~result.ret.ser.ok
            /\ result.ret.ser.dst = call.dst
            /\ result.ret.written = <<>>
    /\ (call.op = "deserialize" /\ result.done) =>
            IF Len(call.src) < call.type.LEN
            THEN /\ ~result.ret.ok
                 /\ result.ret.src = call.src
            ELSE /\ result.ret.ok
                 /\ Len(result.ret.src) = Len(call.src) - call.type.LEN
                 /\ result.ret.src = Rest(call.src, call.type.LEN)

\* a Pvt has been read from a source that held more than its 92 bytes
C37_Witness ==
    /\ call.op = "deserialize"
    /\ result.done
    /\ call.type = Pvt
    /\ Len(call.src) > Pvt.LEN
    /\ result.ret.ok
    /\ result.ret.src # <<>>

\* a source one byte short has been turned down
C37_WitnessShortSource ==
    /\ call.op = "deserialize"
    /\ result.done
    /\ Len(call.src) = call.type.LEN - 1
    /\ ~result.ret.ok

\* a destination one byte short has been turned down
C37_WitnessShortDestination ==
    /\ call.op = "codec"
    /\ result.done
    /\ remaining_mut(call.dst) = call.type.LEN - 1
    /\ ~result.ret.ser.ok

----------------------------------------------------------------------------
(* The transport loops                                                     *)

\* the bytes pushed so far are a message with one checksum byte corrupted,
\* followed by a valid message
CorruptedThenValid ==
    /\ pos >= 2 * FRAME_OVERHEAD
    /\ FirstEnd < pos
    /\ \/ IsWireBadCkA(SubSeq(pushed, 1, FirstEnd))
       \/ IsWireBadCkB(SubSeq(pushed, 1, FirstEnd))
    /\ BelowCeiling(SubSeq(pushed, 1, FirstEnd))
    /\ IsWire(SubSeq(pushed, FirstEnd + 1, pos))
    /\ BelowCeiling(SubSeq(pushed, FirstEnd + 1, pos))

\* the line the loop prints for a checksum error
ErrorLine == [line |-> "deframe error", e |-> ErrChecksum]

\* a checksum error is printed and the next byte is pushed on the Deframer
\* the error left behind
ReportedAndContinued ==
    /\ Len(outs) = pos
    /\ (pos >= 1 /\ ret = ErrChecksum) =>
            /\ console # <<>>
            /\ console[Len(console)] = ErrorLine
    /\ (pos >= 2 /\ outs[pos - 1] = ErrChecksum) => prev = Deframer_new

\* the valid message after the corrupted one is returned as a Frame, handed
\* to Msg::from_frame, and what came of it is printed after the error
DispatchedAfterError ==
    CorruptedThenValid =>
        LET frame == ParseWire(SubSeq(pushed, FirstEnd + 1, pos))
            msg   == Msg_from_frame(frame)
        IN  /\ ret = OkSome(frame)
            /\ Len(console) = 2
            /\ console[1] = ErrorLine
            /\ console[2] = IF msg.ok
                            THEN [line |-> "msg", msg |-> msg.val]
                            ELSE [line |-> "unhandled frame", frame |-> frame]

\* C38: the transport loop continues after a framing error.  A push that
\* returns a checksum error is reported and the loop goes on with the next
\* byte on the same Deframer; a valid message that follows the corrupted
\* one in the stream is still decoded and dispatched.
C38_LoopContinues == ReportedAndContinued /\ DispatchedAfterError

\* the same, where both messages carry a payload
C38_LoopContinuesNonEmpty ==
    /\ ReportedAndContinued
    /\ (pos >= 2 * FRAME_OVERHEAD /\ FirstEnd > FRAME_OVERHEAD
            /\ pos - FirstEnd > FRAME_OVERHEAD) => DispatchedAfterError

\* what the loop prints for the values rets[lo..hi], in order
RECURSIVE LinesOf(_, _, _)
LinesOf(rets, lo, hi) ==
    IF lo > hi THEN <<>>
    ELSE IF lo = hi THEN file_loop_match(rets[lo])
    ELSE LET mid == (lo + hi) \div 2
         IN  LinesOf(rets, lo, mid) \o LinesOf(rets, mid + 1, hi)

\* the Deframer and the values returned after bytes[lo..hi] are pushed on
\* deframer as one piece
RECURSIVE InOnePiece(_, _, _, _)
InOnePiece(deframer, bytes, lo, hi) ==
    IF lo > hi THEN [self |-> deframer, outs |-> <<>>]
    ELSE IF lo = hi
    THEN LET r == Deframer_push(deframer, bytes[lo])
         IN  [self |-> r.self, outs |-> <<r.ret>>]
    ELSE LET mid  == (lo + hi) \div 2
             left == InOnePiece(deframer, bytes, lo, mid)
         IN  IF Len(left.outs) = mid - lo + 1
             THEN LET right == InOnePiece(left.self, bytes, mid + 1, hi)
                  IN  [self |-> right.self, outs |-> left.outs \o right.outs]
             ELSE left

\* C39: frames split across I2C reads.  The I2C loop keeps one Deframer
\* for the session and reads at most 128 bytes per transfer; however the
\* receiver's bytes are cut into reads, the Frames delivered are those, in
\* that order, that pushing the same bytes in one piece delivers, and a
\* message that spans two reads is delivered once.
C39_SplitAcrossReads ==
    /\ scratch.read_len <= I2C_SCRATCH
    /\ Len(scratch.read_buf) = scratch.read_len
    /\ LET whole == InOnePiece(Deframer_new, stream, 1, pos)
       IN  /\ d = whole.self
           /\ outs = whole.outs
           /\ console = LinesOf(whole.outs, 1, pos)

\* the session ended on a read shorter than a message that delivered the
\* second Frame of the stream, after a read of 128 bytes had been made
C39_Witness ==
    /\ pos = Len(stream)
    /\ Len(stream) > 2 * I2C_SCRATCH
    /\ scratch.read_len < FRAME_OVERHEAD
    /\ scratch.read_len >= 1
    /\ outs[pos].kind = "Frame"
    /\ Len(console) = 2

\* the value the Deframer of framing.rs returned is, byte for byte, the
\* value the Deframer of deframer.rs returned
SameOutcome(old, new) ==
    /\ old.kind = new.kind
    /\ old.kind = "Frame" =>
          /\ old.frame.class = new.frame.class
          /\ old.frame.id = new.frame.id
          /\ old.frame.payload = new.frame.message

\* the two Deframers are at the same place of the same message
SameDeframer(old, new) ==
    /\ old.state = (IF new.state = "Message" THEN "Payload" ELSE new.state)
    /\ old.state = "Sync" => old.accum = new.accum
    /\ old.state \in {"Id", "LengthLsb", "LengthMsb", "Payload"} =>
          /\ old.class = new.class
          /\ old.cksum.some
          /\ old.cksum.pair = new.cksum
    /\ old.state = "Payload" =>
          /\ old.len = new.len
          /\ old.payload = new.message
    /\ old.state \in {"CkA", "CkB"} =>
          /\ old.payload = new.message
          /\ old.cksum_calc = new.cksum_calc

\* C40: the two Deframer versions agree below the ceiling.  While no
\* header of the stream has declared a length above 999, the Deframer of
\* framing.rs and the Deframer of framing/deframer.rs have returned the same
\* sequence of values, byte for byte, and stand at the same place.
C40_VersionsAgree ==
    ~framing.above =>
        /\ Len(framing.outs) = Len(outs)
        /\ \A i \in 1 .. Len(outs) : SameOutcome(framing.outs[i], outs[i])
        /\ SameDeframer(framing.deframer, d)

\* both versions have just returned the same Frame, a checksum error
\* having come before it, and no header has declared more than 999
C40_Witness ==
    /\ ~framing.above
    /\ pos >= 1
    /\ outs[pos].kind = "Frame"
    /\ framing.outs[pos].kind = "Frame"
    /\ framing.outs[pos].frame.payload = outs[pos].frame.message
    /\ Len(outs[pos].frame.message) >= 1
    /\ \E i \in 1 .. pos : outs[i].kind = "Checksum" /\ framing.outs[i].kind = "Checksum"

\* above the ceiling the two part: framing.rs gathers a payload where
\* deframer.rs is scanning for the sync word again
C40_WitnessAbove ==
    /\ framing.above
    /\ framing.deframer.state = "Payload"
    /\ d.state = "Sync"

====
